---- MODULE Spec2Model ----
(***************************************************************************)
(* Model of the finfron announcement ingestion pipeline:                   *)
(*   backend/bse_scraper.py, backend/new_scraper.py, backend/nse_scraper.py *)
(*   (the three scraper variants), the launchers in backend/server.py and   *)
(*   backend/liveserver.py, and the two AnnouncementCache classes.          *)
(*                                                                         *)
(* An optional value (Python None or a value) is a sequence of length <= 1. *)
(* A string that the code indexes (an ISIN) is a tuple of characters.       *)
(* A headline is represented by the set of listed keywords that occur in   *)
(* it (case-insensitively), which is all check_for_negative_keywords reads. *)
(***************************************************************************)
EXTENDS Integers, Sequences, FiniteSets, Bags, TLC

(***************************************************************************)
(* Bounds of the model.                                                    *)
(***************************************************************************)
MaxFeed == 2        \* announcements the exchange publishes in one behaviour
MaxTicks == 1       \* polling ticks after the initial run
MaxNow == 3         \* the clock reads up to MaxNow (hours)
MaxDate == 0        \* submission times are 0..MaxDate (hours)
CacheMaxSize == 2   \* max_size the caches of SpecCache are constructed with
MaxAdds == 11       \* add calls on the scraper cache in one behaviour of SpecCache
MaxCalls == 5       \* add and contains calls on the serving-tier cache in one behaviour

(***************************************************************************)
(* Program constants.                                                      *)
(***************************************************************************)
RecencyHours == 2        \* should_broadcast: threshold = timedelta(hours=2)
SavePeriod == 10         \* AnnouncementCache.add: len(self.id_cache) % 10 == 0
DefaultMaxSize == 5000   \* bse_scraper.AnnouncementCache.__init__(max_size=5000)

DefaultCategory == "Procedural/Administrative"

(***************************************************************************)
(* Keyword policy: check_for_negative_keywords (identical in the three     *)
(* variants).                                                              *)
(***************************************************************************)
negative_keywords ==
    { "Trading Window", "Compliance Report", "Advertisement(s)", "Advertisement",
      "Public Announcement", "Share Certificate(s)", "Share Certificate",
      "Depositories and Participants", "Depository and Participant",
      "Depository and Participants", "74(5)", "XBRL", "Newspaper Publication",
      "Published in the Newspapers", "Clippings", "Book Closure",
      "Change in Company Secretary/Compliance Officer", "Record Date" }

special_keywords == { "Board", "Outcome", "General Updates" }

check_for_negative_keywords_negative_first(summary) ==
    summary \cap negative_keywords # {}
\* The special keywords are looked for first and override a negative one.
check_for_negative_keywords(summary) ==
    IF summary \cap special_keywords # {} THEN FALSE
    ELSE summary \cap negative_keywords # {}

\* An attachment name is << >> (none) or << stem, extension >>.
lower(ext) == IF ext = "PDF" THEN "pdf" ELSE ext
check_for_pdf_any(desc) == desc # << >>
check_for_pdf(desc) == desc # << >> /\ lower(desc[2]) = "pdf"

(***************************************************************************)
(* ISINs, as tuples of characters (the code reads len(isin) and isin[2]).   *)
(***************************************************************************)
ValidIsin == << "I", "N", "E", "0", "0", "2", "A", "0", "1", "0", "1", "8" >>
ForeignIsin == << "U", "S", "0", "3", "7", "8", "3", "3", "1", "0", "0", "5" >>
ShortIsin == << "I", "N", "E", "0", "0" >>
NAIsin == << "N", "/", "A" >>
NoIsin == << >>

Isins == { ValidIsin, ForeignIsin, ShortIsin, NAIsin, NoIsin }

\* bse_scraper / new_scraper process_data:
\*   if not isin or isin == "N/A" or (len(isin) > 3 and isin[2] != "E"): return False
BseIsinRejected(isin) ==
    \/ isin = NoIsin
    \/ isin = NAIsin
    \/ (Len(isin) > 3 /\ isin[3] # "E")

\* nse_scraper process_data: the ISIN only gates the newnsecode lookup.
NseIsinLooksValid(isin) ==
    /\ isin # NoIsin
    /\ isin # NAIsin
    /\ Len(isin) >= 3
    /\ isin[3] = "E"

(***************************************************************************)
(* Raw announcements of the feed.  The field names are those of the BSE    *)
(* feed; the NSE feed calls them symbol, attchmntText, attchmntFile,       *)
(* sort_date and sm_isin.  NEWSID is the exchange-assigned id (0: absent); *)
(* new_scraper reads the exchange-assigned id under the name XML_NAME.     *)
(***************************************************************************)

Headlines ==
    { { "Board", "Outcome" },           \* "Board Meeting Outcome"
      { "Trading Window" },             \* "Trading Window Closure Intimation"
      { "Record Date", "Board" } }      \* negative and special keyword

Attachments == { << >>, << "AR_2025", "PDF" >>, << "notice", "doc" >> }

Dates == 0..MaxDate

Nows == (MaxDate + RecencyHours)..MaxNow

announcements_are_equal(v, a1, a2) ==
    IF a2 = << >> THEN FALSE
    ELSE IF v = "new" THEN a1.NEWSID = a2[1].NEWSID
    ELSE /\ a1.SCRIP_CD = a2[1].SCRIP_CD
         /\ a1.HEADLINE = a2[1].HEADLINE
         /\ a1.News_submission_dt = a2[1].News_submission_dt
         /\ a1.ATTACHMENTNAME = a2[1].ATTACHMENTNAME

(***************************************************************************)
(* bse_scraper.AnnouncementCache: two sets, persisted to a JSON file.      *)
(***************************************************************************)
NewCache(max_size) ==
    [ id_cache |-> {}, content_hash_cache |-> {}, max_size |-> max_size ]

\* _generate_content_hash: the "field:value" parts of the fields that are
\* present and truthy, in the order of key_fields; no part: no hash (<< >>).
\* The md5 of the joined parts is represented by the parts themselves.
ScraperContentHash(a) ==
    LET parts == << << "SCRIP_CD", a.SCRIP_CD # 0, << a.SCRIP_CD >> >>,
                    << "HEADLINE", TRUE, << a.HEADLINE >> >>,
                    << "News_submission_dt", TRUE, << a.News_submission_dt >> >>,
                    << "SLONGNAME", a.SLONGNAME # "", << a.SLONGNAME >> >>,
                    << "ATTACHMENTNAME", a.ATTACHMENTNAME # << >>, << a.ATTACHMENTNAME >> >> >>
        Truthy(p) == p[2]
    IN  SelectSeq(parts, Truthy)

ScraperContains(c, a) ==
    \/ (a.NEWSID # 0 /\ a.NEWSID \in c.id_cache)
    \/ (ScraperContentHash(a) # << >> /\ ScraperContentHash(a) \in c.content_hash_cache)

\* list(s)[-self.max_size//2:] : the unary minus binds first, so the slice
\* keeps the last ceil(max_size/2) elements of the set's iteration order,
\* which is unrelated to the order of insertion: any subset of that size.
KeepCount(max_size) == (max_size + 1) \div 2

LastOfSetOrder(s, max_size) ==
    IF KeepCount(max_size) = 0 \/ Cardinality(s) <= KeepCount(max_size) THEN { s }
    ELSE { t \in SUBSET s : Cardinality(t) = KeepCount(max_size) }

\* _prune_cache: the results the build can produce.
ScraperPrune(c) ==
    IF Cardinality(c.id_cache) > c.max_size
    THEN { [ c EXCEPT !.id_cache = i, !.content_hash_cache = h ] :
             i \in LastOfSetOrder(c.id_cache, c.max_size),
             h \in LastOfSetOrder(c.content_hash_cache, c.max_size) }
    ELSE { c }

FileOf(c) == << [ id_cache |-> c.id_cache, content_hash_cache |-> c.content_hash_cache ] >>

\* add, with the save_cache (prune, then write) that every SavePeriod-th
\* size of id_cache triggers.  Results: [mem, file].
ScraperAdd(c, file, a) ==
    LET c1 == [ c EXCEPT
                  !.id_cache = IF a.NEWSID # 0 THEN @ \cup { a.NEWSID } ELSE @,
                  !.content_hash_cache =
                      IF ScraperContentHash(a) # << >>
                      THEN @ \cup { ScraperContentHash(a) } ELSE @ ]
    IN  IF Cardinality(c1.id_cache) % SavePeriod = 0
        THEN { [ mem |-> c2, file |-> FileOf(c2) ] : c2 \in ScraperPrune(c1) }
        ELSE { [ mem |-> c1, file |-> file ] }

\* __init__ + load_cache: the sets of the file when it exists.
ScraperLoad(file, max_size) ==
    IF file = << >> THEN NewCache(max_size)
    ELSE [ id_cache |-> file[1].id_cache,
           content_hash_cache |-> file[1].content_hash_cache,
           max_size |-> max_size ]

(***************************************************************************)
(* The classifier's text and what the scrapers make of it.                 *)
(***************************************************************************)
FencedNarrative == "<fence>markdown preamble **Category:** Financial Results **Headline:** Q1 results ## Structured Narrative<fence>"
RawNarrative == "preamble **Category:** Financial Results **Headline:** Q1 results ## Structured Narrative"
CleanNarrative == "**Category:** Financial Results **Headline:** Q1 results ## Structured Narrative"
ErrorText == "Error processing file"
DownloadErrorText == "Failed to download PDF"

\* remove_markdown_tags: the fence of a code block goes, the rest stays.
remove_markdown_tags(text) == IF text = FencedNarrative THEN RawNarrative ELSE text

\* clean_summary: everything before the **Category:** marker goes.
clean_summary(text) == IF text = RawNarrative THEN CleanNarrative ELSE text

\* What happens to the attachment: the download fails; the classifier runs
\* and fails; the classifier answers; the PDF is over the page limit (only
\* nse_scraper counts pages on this path).
PdfOutcomes(v) ==
    { "download_error", "ai_error", "classified" }
        \cup (IF v = "nse" THEN { "over_pages" } ELSE {})

\* null, where a category is expected
None == "None"

\* new_scraper / nse_scraper ai_process, when genai_client is None
UnavailableText == "AI processing unavailable"

\* What process_pdf has written to filepath when it reaches a return: nothing
\* when the download fails, the downloaded file on every other path.
Written(outcome) == IF outcome = "download_error" THEN {} ELSE { "filepath" }

cleanup_skipped(dir, f) == dir
\* finally: if os.path.exists(filepath): os.remove(filepath), on a file
\* system that lets the scraper remove what it wrote
cleanup(dir, f) == IF f \in dir THEN dir \ { f } ELSE dir

\* what is left of the download when process_pdf has returned
Left(outcome) == cleanup(Written(outcome), "filepath")

process_pdf_null_category(v, outcome) ==
    CASE outcome = "download_error" ->
           [ raised |-> FALSE, category |-> None, ai_summary |-> << DownloadErrorText >>, ai |-> FALSE,
             left |-> Left(outcome) ]
      [] outcome = "ai_error" ->
           [ raised |-> FALSE, category |-> "Error", ai_summary |-> << ErrorText >>, ai |-> TRUE,
             left |-> Left(outcome) ]
      [] outcome = "classified" ->
           [ raised |-> FALSE, category |-> "Financial Results",
             ai_summary |-> << remove_markdown_tags(FencedNarrative) >>, ai |-> TRUE,
             left |-> Left(outcome) ]
      [] outcome = "ai_unavailable" ->
           [ raised |-> FALSE, category |-> "Procedural/Administrative",
             ai_summary |-> << UnavailableText >>, ai |-> FALSE,
             left |-> Left(outcome) ]
      [] outcome = "over_pages" ->
           [ raised |-> TRUE, category |-> None, ai_summary |-> << >>, ai |-> FALSE,
             left |-> Left(outcome) ]
\* process_pdf: [raised, category, ai_summary, ai] where ai says that
\* ai_process ran.  nse_scraper returns a bare None over the page limit, which
\* the tuple unpacking of the caller turns into a TypeError.
process_pdf(v, outcome) ==
    CASE outcome = "download_error" ->
           [ raised |-> FALSE, category |-> "Error", ai_summary |-> << DownloadErrorText >>, ai |-> FALSE,
             left |-> Left(outcome) ]
      [] outcome = "ai_error" ->
           [ raised |-> FALSE, category |-> "Error", ai_summary |-> << ErrorText >>, ai |-> TRUE,
             left |-> Left(outcome) ]
      [] outcome = "classified" ->
           [ raised |-> FALSE, category |-> "Financial Results",
             ai_summary |-> << remove_markdown_tags(FencedNarrative) >>, ai |-> TRUE,
             left |-> Left(outcome) ]
      [] outcome = "ai_unavailable" ->
           [ raised |-> FALSE, category |-> "Procedural/Administrative",
             ai_summary |-> << UnavailableText >>, ai |-> FALSE,
             left |-> Left(outcome) ]
      [] outcome = "over_pages" ->
           [ raised |-> TRUE, category |-> None, ai_summary |-> << >>, ai |-> FALSE,
             left |-> Left(outcome) ]

(***************************************************************************)
(* Payloads (processed_data / data).  corp_id is a fresh uuid4 of every    *)
(* call and is left out: the store and the requests are bags.  securityid, *)
(* summary, fileurl, date, companyname and symbol are copied from the raw  *)
(* announcement a.                                                         *)
(***************************************************************************)
Payload(a, category, ai_summary, isin) ==
    [ a |-> a, category |-> category, ai_summary |-> ai_summary, isin |-> isin,
      is_fresh |-> FALSE ]

Fresh(p) == [ p EXCEPT !.is_fresh = TRUE ]

\* What one call of process_data did, besides what it returns.
NoEffect ==
    [ ret |-> FALSE, data |-> << >>, rows |-> << >>, posts |-> << >>,
      ai |-> FALSE, attempt |-> FALSE, add |-> FALSE, left |-> {} ]

HttpOutcomes(l) ==
    \* server.py routes neither /api/save_announcement nor
    \* /api/insert_new_announcement: a scraper it launches gets a 404.
    IF l = "server" THEN { "status" } ELSE { "ok", "status", "exc" }

(***************************************************************************)
(* The value of News_submission_dt as should_broadcast reads it.  A string *)
(* is known by its form and the hour it names:                             *)
(*   "iso"    2025-07-01T10:00:00      "space"  2025-07-01 10:00:00        *)
(*   "iso_z"  2025-07-01T10:00:00Z     "dmy"    01-07-2025 10:00:00        *)
(*   "text"   a string of no date format    "empty"  the empty string      *)
(* A value of another JSON type (null, a number) has no replace method.    *)
(***************************************************************************)
StrDate(form, hour) == [ type |-> "str", form |-> form, hour |-> hour ]

DateValues(hours) ==
    { StrDate(form, hour) : form \in { "iso", "space", "iso_z", "dmy" }, hour \in hours }
        \cup { StrDate("text", 0), StrDate("empty", 0) }
        \cup { [ type |-> "null", form |-> "none", hour |-> 0 ] }
        \cup { [ type |-> "int", form |-> "none", hour |-> hour ] : hour \in hours }

\* a datetime: naive, or aware of its time zone
Datetime(hour, tzinfo) == [ hour |-> hour, tzinfo |-> tzinfo ]

Parsed(dt) == [ exc |-> "none", dt |-> << dt >> ]
Raises(exc) == [ exc |-> exc, dt |-> << >> ]

\* datetime.fromisoformat(date_str.replace('Z', '+00:00'))
fromisoformat(date_str) ==
    IF date_str.type # "str" THEN Raises("AttributeError")
    ELSE CASE date_str.form \in { "iso", "space" } -> Parsed(Datetime(date_str.hour, FALSE))
           [] date_str.form = "iso_z" -> Parsed(Datetime(date_str.hour, TRUE))
           [] OTHER -> Raises("ValueError")

strptime_lenient(date_str, format) ==
    IF date_str.type # "str" THEN Raises("TypeError")
    ELSE Parsed(Datetime(date_str.hour, FALSE))
\* datetime.strptime(date_str, format)
strptime(date_str, format) ==
    IF date_str.type # "str" THEN Raises("TypeError")
    ELSE IF format = "%Y-%m-%dT%H:%M:%S" /\ date_str.form = "iso"
              THEN Parsed(Datetime(date_str.hour, FALSE))
    ELSE IF format = "%d-%m-%Y %H:%M:%S" /\ date_str.form = "dmy"
              THEN Parsed(Datetime(date_str.hour, FALSE))
    ELSE Raises("ValueError")

\* The nest of try blocks that yields announcement_date: an exception other
\* than those a block names leaves the nest; when the last format fails
\* announcement_date is None.
announcement_date(date_str) ==
    LET first == fromisoformat(date_str) IN
    IF first.exc \notin { "ValueError", "TypeError" } THEN first
    ELSE LET second == strptime(date_str, "%Y-%m-%dT%H:%M:%S") IN
         IF second.exc # "ValueError" THEN second
         ELSE LET third == strptime(date_str, "%d-%m-%Y %H:%M:%S") IN
              IF third.exc # "ValueError" THEN third
              ELSE [ exc |-> "none", dt |-> << >> ]

\* current_time - announcement_date, with datetime.now() naive
Age(current_time, dt) ==
    IF dt.tzinfo THEN [ exc |-> "TypeError", hours |-> 0 ]
    ELSE [ exc |-> "none", hours |-> current_time - dt.hour ]

\* except Exception
except_Exception(exc) == exc \in { "ValueError", "TypeError", "AttributeError" }

\* should_broadcast past its first two tests: field is << >> when the
\* announcement has no News_submission_dt, << date_str >> otherwise.
\* [ret, raised]: what it returns, whether an exception leaves it.
is_recent(field, current_time) ==
    IF field = << >> THEN [ ret |-> FALSE, raised |-> FALSE ]
    ELSE LET parsed == announcement_date(field[1])
             age == Age(current_time, parsed.dt[1])
             exc == IF parsed.exc # "none" THEN parsed.exc
                    ELSE IF parsed.dt = << >> THEN "none"
                    ELSE age.exc
         IN  IF exc # "none"
             THEN [ ret |-> FALSE, raised |-> ~except_Exception(exc) ]
             ELSE IF parsed.dt = << >> THEN [ ret |-> FALSE, raised |-> FALSE ]
             ELSE [ ret |-> age.hours <= RecencyHours, raised |-> FALSE ]

should_broadcast_on(first_run, duplicate, field, current_time) ==
    IF first_run THEN [ ret |-> FALSE, raised |-> FALSE ]
    ELSE IF duplicate THEN [ ret |-> FALSE, raised |-> FALSE ]
    ELSE is_recent(field, current_time)

\* The date of a record of the pipeline's feed: the feed's dates parse.
FeedDate(hour) == << StrDate("iso", hour) >>

\* bse_scraper: is_first_run / should_broadcast; the age is in hours.
should_broadcast(a, c, flag, nowv) ==
    should_broadcast_on(flag, ScraperContains(c, a), FeedDate(a.News_submission_dt), nowv).ret

\* bse_scraper: save_to_database (the existence check finds no row for the
\* fresh corp_id).  [success, rows]
save_to_database(p, http, db) ==
    CASE http = "ok" -> [ success |-> TRUE, rows |-> << p >> ]
      [] http = "status" ->
           IF db THEN [ success |-> TRUE, rows |-> << p >> ]
           ELSE [ success |-> FALSE, rows |-> << >> ]
      [] http = "exc" -> [ success |-> FALSE, rows |-> << >> ]

\* bse_scraper: broadcast_announcement.  The endpoint emits and does not
\* insert; the fallback inserts and reports failure.  [success, rows, posts]
broadcast_announcement(p, http, db) ==
    CASE http = "ok" -> [ success |-> TRUE, rows |-> << >>, posts |-> << Fresh(p) >> ]
      [] http = "status" ->
           [ success |-> FALSE, rows |-> IF db THEN << Fresh(p) >> ELSE << >>,
             posts |-> << Fresh(p) >> ]
      [] http = "exc" -> [ success |-> FALSE, rows |-> << >>, posts |-> << Fresh(p) >> ]

\* bse_scraper.BseScraper.process_data
BseProcessData(a, c, flag, nowv, in) ==
    IF a.SCRIP_CD = 0 \/ a.SCRIP_CD = 1 THEN NoEffect
    ELSE IF ScraperContains(c, a) THEN NoEffect
    ELSE
      LET neg == check_for_negative_keywords(a.HEADLINE)
          usePdf == ~neg /\ check_for_pdf(a.ATTACHMENTNAME)
          pdf == process_pdf("bse", in.pdf)
          category == IF usePdf THEN pdf.category ELSE DefaultCategory
          ai_summary == IF usePdf
                        THEN << clean_summary(remove_markdown_tags(pdf.ai_summary[1])) >>
                        ELSE << >>
          ai == usePdf /\ pdf.ai
          left == IF usePdf THEN pdf.left ELSE {}
          p == Payload(a, category, ai_summary, in.isin)
      IN  IF BseIsinRejected(in.isin) THEN [ NoEffect EXCEPT !.ai = ai, !.left = left ]
          ELSE IF should_broadcast(a, c, flag, nowv)
          THEN LET b == broadcast_announcement(p, in.http, in.db)
               IN  [ ret |-> b.success, data |-> << >>, rows |-> b.rows, posts |-> b.posts,
                     ai |-> ai, attempt |-> TRUE, add |-> b.success, left |-> left ]
          ELSE LET d == save_to_database(p, in.http, in.db)
               IN  [ ret |-> d.success, data |-> << >>, rows |-> d.rows, posts |-> << >>,
                     ai |-> ai, attempt |-> TRUE, add |-> d.success, left |-> left ]

\* new_scraper.BseScraper.process_data: returns data whether or not the
\* insert succeeded.
NewProcessData(a, in) ==
    IF a.SCRIP_CD = 0 \/ a.SCRIP_CD = 1 THEN NoEffect
    ELSE IF check_for_negative_keywords(a.HEADLINE) THEN NoEffect
    ELSE
      LET usePdf == check_for_pdf(a.ATTACHMENTNAME)
          pdf == process_pdf("new", in.pdf)
          category == IF usePdf THEN pdf.category ELSE DefaultCategory
          ai_summary == IF usePdf
                        THEN << clean_summary(remove_markdown_tags(pdf.ai_summary[1])) >>
                        ELSE << >>
          ai == usePdf /\ pdf.ai
          left == IF usePdf THEN pdf.left ELSE {}
          p == Payload(a, category, ai_summary, in.isin)
      IN  IF BseIsinRejected(in.isin) THEN [ NoEffect EXCEPT !.ai = ai, !.left = left ]
          ELSE [ ret |-> TRUE, data |-> << p >>, rows |-> IF in.db THEN << p >> ELSE << >>,
                 posts |-> << >>, ai |-> ai, attempt |-> TRUE, add |-> FALSE, left |-> left ]

\* nse_scraper.NseScraper.process_data: the ISIN is a field of the record and
\* only gates the classification (through the newnsecode lookup).
NseProcessData(a, in) ==
    IF check_for_negative_keywords(a.HEADLINE) THEN NoEffect
    ELSE
      LET newnsecode_exists == NseIsinLooksValid(a.sm_isin) /\ in.newnsecode
          usePdf == check_for_pdf(a.ATTACHMENTNAME) /\ newnsecode_exists
          pdf == process_pdf("nse", in.pdf)
          category == IF usePdf THEN pdf.category ELSE DefaultCategory
          ai_summary == IF ~usePdf THEN << >>
                        ELSE IF pdf.category # "Error"
                        THEN << clean_summary(remove_markdown_tags(pdf.ai_summary[1])) >>
                        ELSE pdf.ai_summary
          ai == usePdf /\ pdf.ai
          left == IF usePdf THEN pdf.left ELSE {}
          p == Payload(a, category, ai_summary, a.sm_isin)
      IN  IF usePdf /\ pdf.raised THEN [ NoEffect EXCEPT !.left = left ]
          ELSE [ ret |-> TRUE, data |-> << p >>, rows |-> IF in.db THEN << p >> ELSE << >>,
                 posts |-> << >>, ai |-> ai, attempt |-> TRUE, add |-> FALSE, left |-> left ]

process_data(v, a, c, flag, nowv, in) ==
    CASE v = "bse" -> BseProcessData(a, c, flag, nowv, in)
      [] v = "new" -> NewProcessData(a, in)
      [] v = "nse" -> NseProcessData(a, in)

(***************************************************************************)
(* The serving-tier cache (liveserver.AnnouncementCache).  Keys are        *)
(* << "id", n >> (upstream id), << "generated", n >> (generated id) and    *)
(* << "md5", company, prefix >> (content hash).                            *)
(***************************************************************************)
NewServingCache(max_size) ==
    [ cache |-> << >>, cache_by_content |-> << >>, access_order |-> << >>,
      max_size |-> max_size ]

\* A summary is << >> (the payload has none) or << first 100 characters, rest >>.
\* A field of a payload is absent (<< >>), null (JsonNull) or has a value.
JsonNull == << "null" >>

\* _generate_content_hash slices data['summary'] and data['ai_summary'] when
\* the key is there: None[:100] raises TypeError.
ServingHashRaises(data) == data.summary = JsonNull \/ data.ai_summary = JsonNull

\* _generate_content_hash: the company and the first 100 characters of the
\* summary; None (<< >>) when the payload has no field to hash.
ServingContentHash(data) ==
    IF data.summary = << >> \/ ServingHashRaises(data) THEN << >>
    ELSE << << "md5", data.companyname, data.summary[1] >> >>

Without(f, k) == [ x \in (DOMAIN f) \ { k } |-> f[x] ]
With(f, k, v) == [ x \in (DOMAIN f) \cup { k } |-> IF x = k THEN v ELSE f[x] ]
RemoveKey(q, k) == SelectSeq(q, LAMBDA x : x # k)

\* The eviction loop of _update_access.
RECURSIVE EvictOldest(_)
EvictOldest(c) ==
    IF Cardinality(DOMAIN c.cache) <= c.max_size \/ c.access_order = << >> THEN c
    ELSE LET oldest_key == Head(c.access_order)
             content_hash == IF oldest_key \in DOMAIN c.cache THEN c.cache[oldest_key]
                             ELSE << >>
             cbc == IF content_hash # << >> /\ content_hash[1] \in DOMAIN c.cache_by_content
                    THEN Without(c.cache_by_content, content_hash[1])
                    ELSE c.cache_by_content
         IN  EvictOldest([ c EXCEPT !.access_order = Tail(c.access_order),
                                    !.cache_by_content = cbc,
                                    !.cache = Without(c.cache, oldest_key) ])

_update_access(c, key) ==
    EvictOldest([ c EXCEPT !.access_order = RemoveKey(c.access_order, key) \o << key >> ])

IdKey(data) == IF data.id = 0 THEN << >> ELSE << << "id", data.id >> >>

\* contains: [cache, result]
ServingContains(c, data) ==
    LET announcement_id == IdKey(data)
        content_hash == ServingContentHash(data)
    IN  IF announcement_id # << >> /\ announcement_id[1] \in DOMAIN c.cache
        THEN [ cache |-> _update_access(c, announcement_id[1]), result |-> TRUE ]
        ELSE IF content_hash # << >> /\ content_hash[1] \in DOMAIN c.cache_by_content
        THEN [ cache |-> _update_access(c, content_hash[1]), result |-> TRUE ]
        ELSE [ cache |-> c, result |-> FALSE ]

\* add; stamp is the timestamp a generated id is made of.
ServingAdd(c, data, stamp) ==
    LET announcement_id == IF IdKey(data) # << >> THEN IdKey(data)[1]
                           ELSE << "generated", stamp >>
        content_hash == ServingContentHash(data)
        c1 == [ c EXCEPT !.cache = With(c.cache, announcement_id, content_hash),
                         !.cache_by_content =
                             IF content_hash # << >>
                             THEN With(c.cache_by_content, content_hash[1], announcement_id)
                             ELSE c.cache_by_content ]
    IN  _update_access(c1, announcement_id)

(***************************************************************************)
(* The pipeline: a launcher thread drives one scraper variant.             *)
(***************************************************************************)
VARIABLES
    variant,          \* "bse" (bse_scraper.py), "new" (new_scraper.py), "nse" (nse_scraper.py)
    launcher,         \* "server" (server.py), "liveserver" (liveserver.py), "main" (__main__ of bse_scraper.py)
    feed,             \* what the exchange API lists, newest first
    now,              \* the clock, in hours
    flagFile,         \* data/first_run_flag.txt (bse, new), data/first_run_complete.txt (nse)
    cursor,           \* data/latest_announcement*.json: << >> or << a >>
    cacheMem,         \* self.announcement_cache of the running bse_scraper instance
    cacheFile,        \* data/announcement_cache.json: << >> or << contents >>
    store,            \* bag of the rows of corporatefilings
    sent,             \* bag of the payloads POSTed to insert_new_announcement
    aiCalls,          \* the attachments ai_process ran for
    calls,            \* bag of the announcements process_data was called with since run() or run_continuous() began
    attempts,         \* bag of the announcements a store write was attempted for since then
    pc,               \* where the launcher thread is
    queue,            \* what is left of the batch being processed
    processed_count,  \* nse_scraper.process_all_announcements
    initial,          \* the launcher is in its first run()
    backfill,         \* the run in progress took (or would take) the first-run branch
    ticks,            \* polling ticks so far
    listedIsin,       \* the ISIN the exchange lists for the company
    kind,             \* SpecCache: "scraper" (bse_scraper.py) or "serving" (liveserver.py) cache
    lc,               \* SpecCache: the serving-tier AnnouncementCache
    order,            \* SpecCache: the keys now cached, in the order they were added
    nAdds,            \* SpecCache: calls made so far
    hit,              \* SpecCache: what the last contains call returned
    rlNow,            \* SpecRate: time.time(), in tenths of a second
    request_timestamps, \* SpecRate: RateLimitedGeminiClient.request_timestamps, oldest first
    temp_dir,         \* the attachments lying in self.temp_dir
    lastFetch,        \* what the log says of the latest fetch_data: "none" yet, "ok", "failed"
    raisedAt,         \* SpecLoop: the stage at which the latest failed tick raised, "none" before
    api_check_counter, \* SpecLoop: nse_scraper.run_continuous, iterations since the last health check
    api_available,    \* SpecLoop: nse_scraper.run_continuous, what check_api_health last said
    started,          \* SpecRate: when the latest rate-limited calls started, oldest first
    env,              \* SpecBoot: which of the variables of the .env file are set
    bcIn,             \* SpecBroadcast: what should_broadcast is called on
    bcOut,            \* SpecBroadcast: what the call did, << >> before it
    watchlistnamedata, \* SpecWatch: the rows of the table watchlistnamedata, in stored order
    watchlistdata,    \* SpecWatch: the rows of the table watchlistdata, in stored order
    next_uuid,        \* SpecWatch: the watchlist id the next uuid4() stands for
    response,         \* SpecWatch: the latest request of the watchlist API and its status
    nReq,             \* SpecWatch: requests served so far
    UserData,         \* SpecAuth: the table UserData, one row per registered email
    next_token,       \* SpecAuth: the token the next generate_access_token() stands for
    issued_to,        \* SpecAuth: for every token handed out, the account it was handed to
    last_issued,      \* SpecAuth: for every account, the token register or login handed out last
    logged_out,       \* SpecAuth: for every account, whether it has logged out since
    authResponse,     \* SpecAuth: the latest request and its status
    retry_site,       \* SpecRetry: the retrying call site that is running
    retry_attempt,    \* SpecRetry: the number of the attempt in progress, or of the last one made
    retry_log,        \* SpecRetry: how the failed attempts failed, in order
    retry_sleeps,     \* SpecRetry: the seconds slept after the failed attempts, in order
    retry_pc,         \* SpecRetry: "attempt", or how the call site ended
    ingest,           \* SpecIngest: the latest request of the ingestion endpoints, and its answer
    events,           \* SpecIngest: the new_announcement events emitted so far, in order
    corporatefilings, \* SpecIngest: the corp_id of the rows save_announcement inserted, in order
    nPosts,           \* SpecIngest: requests served so far
    kw,               \* SpecKeywords: the latest call of check_for_negative_keywords and its result
    cache_exc,        \* SpecCache: the exception the latest call on the serving-tier cache raised, "none" if none
    WatchListID,      \* SpecConcurrent: the column WatchListID of the user's row of UserData (server.py)
    req               \* SpecConcurrent: the requests in flight: what each asks, where it is, its current_user

pipeVars == << variant, launcher, listedIsin, lastFetch, temp_dir, feed, now, flagFile, cursor, cacheMem, cacheFile, store,
               sent, aiCalls, calls, attempts, pc, queue, processed_count, initial,
               backfill, ticks >>
cacheVars == << kind, lc, order, nAdds, hit >>
rateVars == << rlNow, request_timestamps, started >>
loopVars == << raisedAt, api_check_counter, api_available >>
bootVars == << env >>
broadcastVars == << bcIn, bcOut >>
watchVars == << watchlistnamedata, watchlistdata, next_uuid, response, nReq >>
authVars == << UserData, next_token, issued_to, last_issued, logged_out, authResponse >>
retryVars == << retry_site, retry_attempt, retry_log, retry_sleeps, retry_pc >>
ingestVars == << ingest, events, corporatefilings, nPosts >>
kwVars == << kw >>
concVars == << WatchListID, req >>
extraVars == << kwVars, cache_exc, concVars >>
auxVars == << bootVars, broadcastVars, watchVars, authVars, retryVars, ingestVars, extraVars >>
vars == << pipeVars, cacheVars, rateVars, loopVars, auxVars >>

\* RateLimitedGeminiClient.__init__: no call has been made yet.
RateIdle == rlNow = 0 /\ request_timestamps = << >> /\ started = << >>

\* run_continuous has not begun.
LoopIdle == raisedAt = "none" /\ api_check_counter = 0 /\ api_available = TRUE

\* load_dotenv() found every variable the scrapers read.
Configured == [ GEMINI_API_KEY |-> TRUE, SUPABASE_URL |-> TRUE, SUPABASE_KEY |-> TRUE ]

BootIdle == env = Configured

\* genai_client = RateLimitedGeminiClient(api_key=API_KEY) if API_KEY, else None
genai_client(e) == e.GEMINI_API_KEY

\* supabase = create_client(SUPABASE_URL, SUPABASE_KEY) if both are set, else None
supabase(e) == e.SUPABASE_URL /\ e.SUPABASE_KEY

\* The module-level initialisation of a scraper: bse_scraper raises
\* EnvironmentError when the classifier key or a store credential is
\* missing; new_scraper and nse_scraper log a warning and go on.
module_init(v, e) ==
    IF v = "bse"
    THEN IF ~e.GEMINI_API_KEY THEN "EnvironmentError"
         ELSE IF ~(e.SUPABASE_URL /\ e.SUPABASE_KEY) THEN "EnvironmentError"
         ELSE "imported"
    ELSE "imported"

\* should_broadcast has not been called.
BroadcastIdle ==
    /\ bcIn = [ first_run |-> FALSE, duplicate |-> FALSE, field |-> << >>, current_time |-> 0 ]
    /\ bcOut = << >>

\* null, where the JSON of a request or a column of the store holds an ISIN
NullIsin == << "null" >>

\* No account is registered and no request has been served.
WatchIdle ==
    /\ watchlistnamedata = << >> /\ watchlistdata = << >>
    /\ next_uuid = 1 /\ nReq = 0
    /\ response = [ op |-> "none", user_id |-> "none", watchlist_id |-> 0, isin |-> NullIsin, category |-> None, status |-> 0 ]

\* the value of AccessToken after a logout, and of a request with no token
NullToken == 0

Emails == { "a@example.com", "b@example.com" }

\* No account is registered.
AuthIdle ==
    /\ UserData = [ e \in {} |-> 0 ]
    /\ next_token = 1
    /\ issued_to = [ t \in {} |-> "none" ]
    /\ last_issued = [ e \in Emails |-> NullToken ]
    /\ logged_out = [ e \in Emails |-> FALSE ]
    /\ authResponse = [ op |-> "none", email |-> "none", token |-> NullToken, status |-> 0 ]

\* No retrying call is running.
RetryIdle ==
    /\ retry_site = "none" /\ retry_attempt = 0
    /\ retry_log = << >> /\ retry_sleeps = << >> /\ retry_pc = "idle"

\* No payload has been POSTed to the ingestion endpoints.
NoRequest ==
    [ server |-> "none", route |-> "none", data |-> << >>, status |-> 0, emitted |-> {} ]
IngestIdle ==
    ingest = NoRequest /\ events = << >> /\ corporatefilings = << >> /\ nPosts = 0

\* check_for_negative_keywords has not been called.
KwIdle == kw = << >>

\* server.py serves no watchlist request.
ConcIdle == WatchListID = << >> /\ req = << >>

ExtraIdle == KwIdle /\ cache_exc = "none" /\ ConcIdle

AuxIdle ==
    BootIdle /\ BroadcastIdle /\ WatchIdle /\ AuthIdle /\ RetryIdle /\ IngestIdle /\ ExtraIdle

Configs ==
    { << "bse", "server" >>, << "bse", "main" >>,
      << "new", "liveserver" >>, << "nse", "liveserver" >> }

\* What the exchange can publish.  The company's ISIN is a field of an NSE
\* record (sm_isin); the BSE scrapers look it up (get_isin).
Universe(v) ==
    [ SCRIP_CD : { 500325 },
      SLONGNAME : { "RELIANCE INDUSTRIES LTD" },
      HEADLINE : Headlines,
      ATTACHMENTNAME : Attachments,
      News_submission_dt : Dates,
      NEWSID : IF v = "nse" THEN { 0 } ELSE 1..MaxFeed,
      sm_isin : IF v = "nse" THEN { listedIsin } ELSE { NoIsin } ]

\* get_isin: the listed ISIN, "N/A" when the lookup fails.
get_isin(ok) == IF ok THEN listedIsin ELSE NAIsin

\* The inputs of one process_data call: what the ISIN lookup, the attachment
\* and classifier, the HTTP endpoint, the store insert and the newnsecode
\* lookup answer.
\* with the store not connected the insert and the newnsecode lookup are
\* skipped; with no classifier ai_process answers that it is unavailable.
Inputs(v, l) ==
    [ isin : IF v = "nse" THEN { NoIsin } ELSE { get_isin(ok) : ok \in BOOLEAN },
      pdf : IF genai_client(env) THEN PdfOutcomes(v)
            ELSE (PdfOutcomes(v) \ { "ai_error", "classified" }) \cup { "ai_unavailable" },
      http : IF v = "bse" THEN HttpOutcomes(l) ELSE { "ok" },
      db : IF supabase(env) THEN BOOLEAN ELSE { FALSE },
      newnsecode : IF v = "nse" /\ supabase(env) THEN BOOLEAN ELSE { FALSE } ]

SeqBag(q) == IF q = << >> THEN EmptyBag ELSE SetToBag({ q[1] })

Init ==
    /\ \E cfg \in Configs : variant = cfg[1] /\ launcher = cfg[2]
    /\ listedIsin \in Isins
    /\ lastFetch = "none"
    /\ temp_dir = {}
    /\ feed = << >>
    /\ now = MaxDate + RecencyHours
    /\ flagFile \in BOOLEAN
    /\ cursor = << >>
    /\ cacheMem = NewCache(DefaultMaxSize)
    /\ cacheFile = << >>
    /\ store = EmptyBag /\ sent = EmptyBag /\ attempts = EmptyBag /\ calls = EmptyBag
    /\ aiCalls = {}
    /\ pc = "boot"
    /\ queue = << >>
    /\ processed_count = 0
    /\ initial = TRUE
    /\ backfill = FALSE
    /\ ticks = 0
    /\ kind = "none" /\ lc = NewServingCache(CacheMaxSize)
    /\ order = [ ids |-> << >>, hashes |-> << >> ] /\ nAdds = 0 /\ hit = FALSE
    /\ RateIdle
    /\ LoopIdle
    /\ AuxIdle

\* The exchange publishes one more announcement.
Publish(a) ==
    /\ pc \in { "boot", "latest", "sleep", "loop" }
    /\ Len(feed) < MaxFeed
    /\ a \in Universe(variant)
    /\ a.NEWSID \in { 0, Len(feed) + 1 }
    /\ \A i \in 1..Len(feed) : feed[i] # a
    /\ feed' = << a >> \o feed
    /\ UNCHANGED << variant, launcher, listedIsin, temp_dir, lastFetch, now, flagFile, cursor, cacheMem, cacheFile, store,
                    sent, aiCalls, calls, attempts, pc, queue, processed_count, initial,
                    backfill, ticks, cacheVars, rateVars, loopVars, auxVars >>

\* What can go wrong with a request of fetch_data: a timeout, a 4XX/5XX
\* status, no connection, a body that is not the expected JSON, the NSE
\* session bootstrap, anything else.
FailureKinds == { "timeout", "http", "conn", "body", "boot" }
Kinds(v) == IF v = "nse" THEN FailureKinds \cup { "other" }
            ELSE (FailureKinds \ { "boot" }) \cup { "other" }
max_retries == 3
Attempts(v) == IF v = "nse" THEN 1 ELSE max_retries

\* An input of fetch_data: the first fails requests fail in the way kind.
FetchInputs(v) ==
    { [ kind |-> "ok", fails |-> 0 ] }
        \cup { [ kind |-> k, fails |-> f ] : k \in Kinds(v), f \in 1..Attempts(v) }

Fetched(raised, none, list, failed) ==
    [ raised |-> raised, none |-> none, list |-> list, failed |-> failed ]
EmptyListing == Fetched(FALSE, FALSE, << >>, FALSE)

\* bse_scraper and new_scraper: every except clause logs, the last one is
\* except Exception; then a retry, or [] after the last attempt.
RECURSIVE BseFetchAttempt(_, _)
BseFetchAttempt(attempt, i) ==
    IF attempt > i.fails THEN Fetched(FALSE, FALSE, feed, FALSE)
    ELSE IF attempt < max_retries THEN BseFetchAttempt(attempt + 1, i)
    ELSE Fetched(FALSE, FALSE, << >>, TRUE)

\* nse_scraper: one attempt; None when _initialize_session fails, on a
\* RequestException and on a body that is no JSON list; any other exception
\* leaves fetch_data.
NseFetch(i) ==
    IF i.fails = 0 THEN Fetched(FALSE, FALSE, feed, FALSE)
    ELSE IF i.kind \in { "boot", "timeout", "http", "conn", "body" }
         THEN Fetched(FALSE, TRUE, << >>, TRUE)
         ELSE Fetched(TRUE, FALSE, << >>, TRUE)

fetch_data_stale(v, i) ==
    IF i.fails = 0 THEN Fetched(FALSE, FALSE, feed, FALSE)
    ELSE Fetched(FALSE, FALSE, feed, TRUE)
\* fetch_data: the listing, or nothing when the requests fail.
fetch_data(v, i) == IF v = "nse" THEN NseFetch(i) ELSE BseFetchAttempt(1, i)

FetchResults(v) == { fetch_data(v, i) : i \in FetchInputs(v) }

\* if not announcements, and the except clause around the callers of
\* nse_scraper.fetch_data
NoAnnouncements(fetched) == fetched.raised \/ fetched.none \/ fetched.list = << >>
Listing(fetched) == IF NoAnnouncements(fetched) THEN << >> ELSE fetched.list
FetchLog(fetched) == IF fetched.failed THEN "failed" ELSE "ok"

\* The effects of one process_data call on the store, the requests, the cache
\* and the history.
Apply(a, r, calls0, attempts0) ==
    /\ store' = store (+) SeqBag(r.rows)
    /\ sent' = sent (+) SeqBag(r.posts)
    /\ aiCalls' = IF r.ai THEN aiCalls \cup { a.ATTACHMENTNAME } ELSE aiCalls
    /\ temp_dir' = temp_dir \cup { a.ATTACHMENTNAME : f \in r.left }
    /\ calls' = calls0 (+) SetToBag({ a })
    /\ attempts' = IF r.attempt THEN attempts0 (+) SetToBag({ a }) ELSE attempts0
    /\ \E m \in (IF r.add THEN ScraperAdd(cacheMem, cacheFile, a)
                 ELSE { [ mem |-> cacheMem, file |-> cacheFile ] }) :
            /\ cacheMem' = m.mem
            /\ cacheFile' = m.file

\* server.start_scraper, liveserver.start_scraper_bse / start_scraper_nse up to
\* the first run(); bse_scraper's __main__ up to run_continuous.
start_scraper ==
    /\ pc = "boot"
    /\ flagFile' = IF launcher = "liveserver" THEN TRUE ELSE flagFile
    /\ cacheMem' = IF variant = "bse" THEN ScraperLoad(cacheFile, DefaultMaxSize) ELSE cacheMem
    /\ pc' = IF launcher = "main" THEN "loop" ELSE "run"
    /\ initial' = (launcher # "main")
    /\ UNCHANGED << variant, launcher, listedIsin, temp_dir, lastFetch, feed, now, cursor, cacheFile, store, sent, aiCalls,
                    calls, attempts, queue, processed_count, backfill, ticks, cacheVars, rateVars, loopVars, auxVars >>

\* The first-run test of run(): new_scraper takes the flag's presence for a
\* first run, nse_scraper its absence; bse_scraper.run has no such branch.
is_first_run(v, flag) ==
    CASE v = "new" -> flag
      [] v = "nse" -> ~flag
      [] v = "bse" -> flag

\* run() up to the batch: bse_scraper fetches and walks the whole listing;
\* new_scraper and nse_scraper enter process_all_announcements on a first run
\* (new_scraper leaves the newest to processLatestAnnouncement).
run_on(fetched) ==
    /\ pc = "run"
    /\ backfill' = is_first_run(variant, flagFile)
    /\ processed_count' = 0
    /\ calls' = EmptyBag /\ attempts' = EmptyBag
    /\ LET announcements == Listing(fetched) IN
         CASE variant = "bse" ->
                /\ queue' = announcements
                /\ pc' = IF announcements = << >> THEN "done" ELSE "batch"
           [] variant = "new" ->
                IF flagFile /\ announcements # << >>
                THEN queue' = Tail(announcements) /\ pc' = "batch"
                ELSE queue' = << >> /\ pc' = "latest"
           [] variant = "nse" ->
                IF ~flagFile /\ announcements # << >>
                THEN queue' = announcements /\ pc' = "batch"
                ELSE queue' = << >> /\ pc' = "latest"
    /\ UNCHANGED << variant, launcher, listedIsin, temp_dir, feed, now, flagFile, cursor, cacheMem, cacheFile,
                    store, sent, aiCalls, initial, ticks, cacheVars, rateVars, loopVars, auxVars >>

run ==
    \E fetched \in FetchResults(variant) :
        run_on(fetched) /\ lastFetch' = FetchLog(fetched)

\* One iteration of the batch loop: process_data on the next announcement.
ProcessNext ==
    /\ pc = "batch" /\ queue # << >>
    /\ \E in \in Inputs(variant, launcher) :
         LET a == Head(queue)
             r == process_data(variant, a, cacheMem, flagFile, now, in)
         IN  /\ Apply(a, r, calls, attempts)
             /\ processed_count' = IF r.ret THEN processed_count + 1 ELSE processed_count
    /\ queue' = Tail(queue)
    /\ UNCHANGED << variant, launcher, listedIsin, lastFetch, feed, now, flagFile, cursor, pc, initial, backfill,
                    ticks, cacheVars, rateVars, loopVars, auxVars >>

\* The batch is through: nse_scraper.run records the completed first run when
\* something was processed; new_scraper and nse_scraper go on to
\* processLatestAnnouncement.
BatchDone ==
    /\ pc = "batch" /\ queue = << >>
    /\ flagFile' = IF variant = "nse" /\ processed_count > 0 THEN TRUE ELSE flagFile
    /\ pc' = IF variant = "bse" THEN "done" ELSE "latest"
    /\ UNCHANGED << variant, launcher, listedIsin, temp_dir, lastFetch, feed, now, cursor, cacheMem, cacheFile, store, sent,
                    aiCalls, calls, attempts, queue, processed_count, initial, backfill,
                    ticks, cacheVars, rateVars, loopVars, auxVars >>

\* processLatestAnnouncement of new_scraper and nse_scraper, whole: fetch,
\* compare the newest with the cursor, process_data, save the cursor, POST the
\* payload marked fresh.
processLatestAnnouncement_on(fetched) ==
    /\ pc = "latest"
    /\ pc' = "done"
    /\ LET announcements == Listing(fetched) IN
         IF announcements = << >> \/ announcements_are_equal(variant, announcements[1], cursor)
         THEN UNCHANGED << cursor, cacheMem, cacheFile, store, sent, aiCalls, calls, attempts, temp_dir >>
         ELSE \E in \in Inputs(variant, launcher) :
                LET latest_announcement == announcements[1]
                    r == process_data(variant, latest_announcement, cacheMem, flagFile, now, in)
                    posted == IF r.ret THEN << Fresh(r.data[1]) >> ELSE << >>
                IN  /\ Apply(latest_announcement, [ r EXCEPT !.posts = posted ], calls, attempts)
                    /\ cursor' = IF r.ret THEN << latest_announcement >> ELSE cursor
    /\ UNCHANGED << variant, launcher, listedIsin, feed, now, flagFile, queue, processed_count, initial,
                    backfill, ticks, cacheVars, rateVars, loopVars, auxVars >>

processLatestAnnouncement ==
    \E fetched \in FetchResults(variant) :
        processLatestAnnouncement_on(fetched) /\ lastFetch' = FetchLog(fetched)

\* run() has returned to the launcher: after the initial run liveserver removes
\* the flag file it created.
RunReturn ==
    /\ pc = "done"
    /\ flagFile' = IF launcher = "liveserver" /\ initial THEN FALSE ELSE flagFile
    /\ initial' = FALSE
    /\ pc' = "sleep"
    /\ UNCHANGED << variant, launcher, listedIsin, temp_dir, lastFetch, feed, now, cursor, cacheMem, cacheFile, store, sent,
                    aiCalls, calls, attempts, queue, processed_count, backfill, ticks,
                    cacheVars, rateVars, loopVars, auxVars >>

\* time.sleep(check_interval), then a new scraper instance: bse_scraper's
\* constructor loads the cache from its file.
NextTick ==
    /\ pc = "sleep"
    /\ ticks < MaxTicks
    /\ ticks' = ticks + 1
    /\ now' \in now..MaxNow
    /\ cacheMem' = IF variant = "bse" THEN ScraperLoad(cacheFile, DefaultMaxSize) ELSE cacheMem
    /\ pc' = "run"
    /\ UNCHANGED << variant, launcher, listedIsin, temp_dir, lastFetch, feed, flagFile, cursor, cacheFile, store, sent,
                    aiCalls, calls, attempts, queue, processed_count, initial, backfill,
                    cacheVars, rateVars, loopVars, auxVars >>

\* One iteration of bse_scraper.run_continuous, whole, the sleep included.
run_continuous_on(fetched) ==
    /\ pc = "loop"
    /\ ticks < MaxTicks + 1
    /\ ticks' = ticks + 1
    /\ now' \in now..MaxNow
    /\ backfill' = is_first_run(variant, flagFile)
    /\ LET announcements == Listing(fetched) IN
         IF announcements = << >> \/ announcements_are_equal(variant, announcements[1], cursor)
         THEN UNCHANGED << cursor, cacheMem, cacheFile, store, sent, aiCalls, calls, attempts, temp_dir >>
         ELSE \E in \in Inputs(variant, launcher) :
                LET latest_announcement == announcements[1]
                    r == process_data(variant, latest_announcement, cacheMem, flagFile, now, in)
                IN  /\ Apply(latest_announcement, r, calls, attempts)
                    /\ cursor' = IF r.ret THEN << latest_announcement >> ELSE cursor
    /\ UNCHANGED << variant, launcher, listedIsin, feed, flagFile, pc, queue, processed_count, initial,
                    cacheVars, rateVars, loopVars, auxVars >>

run_continuous ==
    \E fetched \in FetchResults(variant) :
        run_continuous_on(fetched) /\ lastFetch' = FetchLog(fetched)

Next ==
    \/ \E a \in Universe(variant) : Publish(a)
    \/ start_scraper
    \/ run
    \/ ProcessNext
    \/ BatchDone
    \/ processLatestAnnouncement
    \/ RunReturn
    \/ NextTick
    \/ run_continuous

Spec == Init /\ [][Next]_vars

TypeOK ==
    /\ << variant, launcher >> \in Configs
    /\ Len(feed) <= MaxFeed
    /\ now \in Nows
    /\ flagFile \in BOOLEAN
    /\ Len(cursor) <= 1
    /\ pc \in { "boot", "run", "batch", "latest", "done", "sleep", "loop", "cache" }
    /\ ticks \in 0..(MaxTicks + 1)
    /\ kind \in { "none", "scraper", "serving" }
    /\ nAdds \in 0..(IF kind = "serving" THEN MaxCalls ELSE MaxAdds)
    /\ hit \in BOOLEAN

(***************************************************************************)
(* Properties of the pipeline.                                             *)
(***************************************************************************)
Rows == BagToSet(store)
Posts == BagToSet(sent)

\* How often a bag of payloads holds the raw announcement a.
RECURSIVE Total(_, _)
Total(bag, ps) ==
    IF ps = {} THEN 0
    ELSE LET p == CHOOSE x \in ps : TRUE
         IN  CopiesIn(p, bag) + Total(bag, ps \ { p })
CountFor(bag, a) == Total(bag, { p \in BagToSet(bag) : p.a = a })

\* C1: an announcement whose headline holds a negative keyword and no special
\* keyword is neither written to the store nor sent to the broadcast endpoint,
\* whichever scraper variant runs.
C1_NegativeNeverPersistedOrSent ==
    \A p \in Rows \cup Posts : ~check_for_negative_keywords(p.a.HEADLINE)

\* C2: a raw record the scraper meets more than once, in one tick, in later
\* ticks or after the launcher replaced the scraper instance, leaves at most
\* one row in the store.
C2_AtMostOneRow ==
    \A a \in { p.a : p \in Rows } : CountFor(store, a) <= 1

\* C3: no row of the store carries an ISIN that is missing, "N/A", of the
\* wrong length or without the equity code character.
C3_InvalidIsinNeverPersisted ==
    \A p \in Rows : Len(p.isin) = 12 /\ p.isin[3] = "E"

\* C4: outside a first run, an announcement older than the recency threshold
\* is never sent to the broadcast endpoint.
C4_StaleNeverSent ==
    [][ \A p \in BagToSet(sent') :
           (CopiesIn(p, sent') > CopiesIn(p, sent) /\ ~initial)
               => (now - p.a.News_submission_dt) <= RecencyHours ]_vars

\* C5: until the first run() that liveserver starts has returned, nothing is
\* sent to the broadcast endpoint.
C5_FirstRunSendsNothing == (initial /\ launcher = "liveserver") => sent = EmptyBag

\* C6: on a first-run backfill that starts from an empty cursor, no
\* announcement of the batch gets a second persistence attempt.
C6_BackfillAttemptsOnce ==
    [][ (pc = "latest" /\ backfill /\ cursor = << >> /\ variant \in { "new", "nse" })
           => \A a \in BagToSet(attempts') : CopiesIn(a, attempts') = 1 ]_vars

\* C7: in a polling tick whose newest fetched announcement equals the persisted
\* cursor, process_data is not called, nothing is written to the store,
\* nothing is sent and the cursor stays.
C7_NothingNewNothingDone ==
    [][ (/\ ~initial
         /\ pc \in { "batch", "latest", "loop" }
         /\ feed # << >>
         /\ announcements_are_equal(variant, feed[1], cursor))
           => (/\ calls' \in { calls, EmptyBag }
               /\ attempts' \in { attempts, EmptyBag }
               /\ store' = store /\ sent' = sent /\ cursor' = cursor) ]_vars

\* The attachment name ends in ".pdf", in either case.
EndsWithPdf(desc) == desc # << >> /\ desc[2] \in { "pdf", "PDF" }

\* C8: a row whose attachment is absent or does not end in ".pdf" has the
\* category "Procedural/Administrative" and no ai_summary, and the classifier
\* never ran for such an attachment.
C8_NoPdfDefaultCategory ==
    /\ \A p \in Rows :
          ~EndsWithPdf(p.a.ATTACHMENTNAME)
              => p.category = "Procedural/Administrative" /\ p.ai_summary = << >>
    /\ \A desc \in aiCalls : EndsWithPdf(desc)

\* Two rows without a PDF are in the store: one of an announcement with a
\* non-PDF attachment, one of an announcement with none.
C8_Witness ==
    /\ \E p \in Rows : p.a.ATTACHMENTNAME = << "notice", "doc" >>
    /\ \E p \in Rows : p.a.ATTACHMENTNAME = << >>

(***************************************************************************)
(* The two caches exercised on their own: any sequence of add and contains *)
(* calls on a cache constructed with max_size = CacheMaxSize.              *)
(***************************************************************************)
\* What the scraper cache is offered: announcement i of the feed has upstream
\* id i and its own submission time; an announcement without upstream id
\* (NEWSID 0) has one of CacheMaxSize + 1 earlier submission times.
CacheAnnouncement(id, dt) ==
    [ SCRIP_CD |-> 500325, SLONGNAME |-> "RELIANCE INDUSTRIES LTD", HEADLINE |-> { "Board" },
      ATTACHMENTNAME |-> << >>, News_submission_dt |-> dt, NEWSID |-> id, sm_isin |-> NoIsin ]

\* What the serving-tier cache is offered.
ServingPayloads ==
    [ id : 0..(CacheMaxSize + 1), companyname : { "RELIANCE INDUSTRIES" },
      summary : { << >>, JsonNull } \cup { << h, t >> : h \in 1..(CacheMaxSize + 1), t \in { "" } },
      ai_summary : { << >>, JsonNull } ]

InitCache ==
    /\ variant = "bse" /\ launcher = "main"
    /\ listedIsin = ValidIsin
    /\ lastFetch = "none"
    /\ temp_dir = {}
    /\ feed = << >>
    /\ now = MaxDate + RecencyHours
    /\ flagFile = FALSE
    /\ cursor = << >>
    /\ cacheMem = NewCache(CacheMaxSize)
    /\ cacheFile = << >>
    /\ store = EmptyBag /\ sent = EmptyBag /\ attempts = EmptyBag /\ calls = EmptyBag
    /\ aiCalls = {}
    /\ pc = "cache"
    /\ queue = << >>
    /\ processed_count = 0
    /\ initial = FALSE
    /\ backfill = FALSE
    /\ ticks = 0
    /\ kind \in { "scraper", "serving" }
    /\ lc = NewServingCache(CacheMaxSize)
    /\ order = [ ids |-> << >>, hashes |-> << >> ]
    /\ nAdds = 0
    /\ hit = FALSE
    /\ RateIdle
    /\ LoopIdle
    /\ AuxIdle

\* The keys of q that are still cached, then the keys cached now and not in q.
Reorder(q, added, kept) ==
    SelectSeq(q, LAMBDA x : x \in kept /\ x \notin added)
        \o (IF added \subseteq kept /\ added # {}
            THEN << CHOOSE x \in added : TRUE >> ELSE << >>)

\* bse_scraper: announcement_cache.add(a)
ScraperCacheAdd(id, dt) ==
    /\ kind = "scraper"
    /\ nAdds < MaxAdds
    /\ id \in 0..(Cardinality(cacheMem.id_cache) + 1)
    /\ dt \in IF id = 0 THEN 1..(CacheMaxSize + 1) ELSE { CacheMaxSize + 1 + id }
    /\ \E m \in ScraperAdd(cacheMem, cacheFile, CacheAnnouncement(id, dt)) :
         /\ cacheMem' = m.mem
         /\ cacheFile' = m.file
         /\ order' = [ ids |-> Reorder(order.ids,
                                       IF id = 0 \/ id \in cacheMem.id_cache THEN {} ELSE { id },
                                       m.mem.id_cache),
                       hashes |-> Reorder(order.hashes,
                                          { ScraperContentHash(CacheAnnouncement(id, dt)) }
                                              \ cacheMem.content_hash_cache,
                                          m.mem.content_hash_cache) ]
    /\ nAdds' = nAdds + 1
    /\ UNCHANGED << variant, launcher, listedIsin, temp_dir, lastFetch, feed, now, flagFile, cursor, store, sent,
                    aiCalls, calls, attempts, pc, queue, processed_count, initial, backfill,
                    ticks, kind, lc, hit, rateVars, loopVars, auxVars >>

\* bse_scraper: announcement_cache.contains(a)
ScraperCacheContains(id, dt) ==
    /\ kind = "scraper"
    /\ id \in 0..(Cardinality(cacheMem.id_cache) + 1)
    /\ dt \in IF id = 0 THEN 1..(CacheMaxSize + 1) ELSE { CacheMaxSize + 1 + id }
    /\ hit' = ScraperContains(cacheMem, CacheAnnouncement(id, dt))
    /\ UNCHANGED << pipeVars, rateVars, loopVars, kind, lc, order, nAdds, auxVars >>

\* liveserver: announcement_cache.add(data)
ServingCacheAdd(data) ==
    /\ kind = "serving"
    /\ nAdds < MaxCalls
    /\ IF ServingHashRaises(data)
       THEN cache_exc' = "TypeError" /\ UNCHANGED << lc, order >>
       ELSE LET c == ServingAdd(lc, data, nAdds)
                key == IF IdKey(data) # << >> THEN IdKey(data)[1] ELSE << "generated", nAdds >>
            IN  /\ lc' = c
                /\ order' = [ ids |-> Reorder(order.ids, { key }, DOMAIN c.cache),
                              hashes |-> Reorder(order.hashes,
                                                 { h[1] : h \in { ServingContentHash(data) } \ { << >> } },
                                                 DOMAIN c.cache_by_content) ]
                /\ cache_exc' = "none"
    /\ nAdds' = nAdds + 1
    /\ UNCHANGED << pipeVars, rateVars, loopVars, kind, hit, bootVars, broadcastVars, watchVars,
                    authVars, retryVars, ingestVars, kwVars, concVars >>

\* liveserver: announcement_cache.contains(data)
ServingCacheContains(data) ==
    /\ kind = "serving"
    /\ nAdds < MaxCalls
    /\ IF (IdKey(data) = << >> \/ IdKey(data)[1] \notin DOMAIN lc.cache) /\ ServingHashRaises(data)
       THEN cache_exc' = "TypeError" /\ UNCHANGED << lc, order, hit >>
       ELSE LET r == ServingContains(lc, data)
            IN  /\ lc' = r.cache
                /\ hit' = r.result
                /\ order' = [ ids |-> Reorder(order.ids, {}, DOMAIN r.cache.cache),
                              hashes |-> Reorder(order.hashes, {}, DOMAIN r.cache.cache_by_content) ]
                /\ cache_exc' = "none"
    /\ nAdds' = nAdds + 1
    /\ UNCHANGED << pipeVars, rateVars, loopVars, kind, bootVars, broadcastVars, watchVars,
                    authVars, retryVars, ingestVars, kwVars, concVars >>

NextCache ==
    \/ \E id \in 0..MaxAdds, dt \in 1..(CacheMaxSize + 1 + MaxAdds) : ScraperCacheAdd(id, dt)
    \/ \E id \in 0..MaxAdds, dt \in 1..(CacheMaxSize + 1 + MaxAdds) : ScraperCacheContains(id, dt)
    \/ \E data \in ServingPayloads : ServingCacheAdd(data)
    \/ \E data \in ServingPayloads : ServingCacheContains(data)

SpecCache == InitCache /\ [][NextCache]_vars

(***************************************************************************)
(* Properties of the caches.                                               *)
(***************************************************************************)
\* C9: after any sequence of add and contains calls, no collection of either
\* cache (identities, content hashes) holds more than max_size entries.
C9_CollectionsWithinMaxSize ==
    /\ kind = "scraper" =>
          /\ Cardinality(cacheMem.id_cache) <= cacheMem.max_size
          /\ Cardinality(cacheMem.content_hash_cache) <= cacheMem.max_size
    /\ kind = "serving" =>
          /\ Cardinality(DOMAIN lc.cache) <= lc.max_size
          /\ Cardinality(DOMAIN lc.cache_by_content) <= lc.max_size

Pos(q, x) == CHOOSE i \in 1..Len(q) : q[i] = x

\* Of the keys before, those gone after were all added before those that stay.
OldestFirst(q, before, after) ==
    \A e \in before \ after : \A k \in before \cap after : Pos(q, e) < Pos(q, k)

\* C10: whenever the scraper cache evicts, no entry goes while an entry added
\* before it stays.
C10_EvictsOldestFirst ==
    [][ kind = "scraper" =>
            /\ OldestFirst(order.ids, cacheMem.id_cache, cacheMem'.id_cache)
            /\ OldestFirst(order.hashes, cacheMem.content_hash_cache,
                           cacheMem'.content_hash_cache) ]_vars

\* C11: while the entry of an added announcement is still cached, contains is
\* true for every announcement with the same identity or the same content
\* hash: in the serving-tier cache for the hash stored with a primary entry,
\* in the scraper cache for the content of an announcement whose id is cached.
C11_ContainsWhileCached ==
    /\ kind = "serving" =>
          \A k \in DOMAIN lc.cache : \A b \in ServingPayloads :
              (IdKey(b) = << k >>
                  \/ (ServingContentHash(b) # << >> /\ ServingContentHash(b) = lc.cache[k]))
                  => ServingContains(lc, b).result
    /\ kind = "scraper" =>
          \A i \in cacheMem.id_cache :
              /\ ScraperContains(cacheMem, CacheAnnouncement(i, CacheMaxSize + 1 + i))
              /\ ScraperContains(cacheMem, CacheAnnouncement(0, CacheMaxSize + 1 + i))

\* ---------------------------------------------------------------------------
\* RateLimitedGeminiClient (bse_scraper.py, new_scraper.py, nse_scraper.py):
\* one client, one worker.  The clock counts tenths of a second.
\* ---------------------------------------------------------------------------

RpmLimit == 2        \* rpm_limit of the client under check
MaxClock == 1900     \* the clock stops here
Window == 600        \* the 60 seconds of _enforce_rate_limit
Margin == 1          \* the 0.1 second added to the wait
MaxOversleep == 1    \* time.sleep returns at most this late

\* how long the worker is busy between two calls
Advances == { Window \div 2, Window - 1, Window, Window + 1 }

\* while self.request_timestamps and current_time - self.request_timestamps[0] > 60: popleft()
RECURSIVE PopExpired(_, _)
PopExpired(ts, current_time) ==
    IF ts # << >> /\ current_time - ts[1] > Window
    THEN PopExpired(Tail(ts), current_time)
    ELSE ts

wait_time_above_limit(ts, current_time, rpm_limit) ==
    IF Len(ts) > rpm_limit
    THEN Window - (current_time - ts[1]) + Margin
    ELSE 0
\* if len(self.request_timestamps) >= self.rpm_limit: 60 - (current_time - oldest) + 0.1
wait_time(ts, current_time, rpm_limit) ==
    IF Len(ts) >= rpm_limit
    THEN Window - (current_time - ts[1]) + Margin
    ELSE 0

\* _enforce_rate_limit: prune, sleep if the window is full, then record the
\* time read after the sleep.  late is how much longer than asked the sleep took.
_enforce_rate_limit(ts, current_time, rpm_limit, late) ==
    LET pruned == PopExpired(ts, current_time)
        w == wait_time(pruned, current_time, rpm_limit)
        woke == IF w > 0 THEN current_time + w + late ELSE current_time
    IN  [ request_timestamps |-> Append(pruned, woke), time |-> woke, waited |-> w > 0 ]

LastN(q, n) == IF Len(q) <= n THEN q ELSE SubSeq(q, Len(q) - n + 1, Len(q))

InitRate ==
    /\ variant = "bse" /\ launcher = "main"
    /\ listedIsin = ValidIsin
    /\ lastFetch = "none"
    /\ temp_dir = {}
    /\ feed = << >>
    /\ now = MaxDate + RecencyHours
    /\ flagFile = FALSE
    /\ cursor = << >>
    /\ cacheMem = NewCache(DefaultMaxSize)
    /\ cacheFile = << >>
    /\ store = EmptyBag /\ sent = EmptyBag /\ attempts = EmptyBag /\ calls = EmptyBag
    /\ aiCalls = {}
    /\ pc = "rate"
    /\ queue = << >>
    /\ processed_count = 0
    /\ initial = FALSE
    /\ backfill = FALSE
    /\ ticks = 0
    /\ kind = "none" /\ lc = NewServingCache(CacheMaxSize)
    /\ order = [ ids |-> << >>, hashes |-> << >> ] /\ nAdds = 0 /\ hit = FALSE
    /\ RateIdle
    /\ LoopIdle
    /\ AuxIdle

\* one attempt of generate_content, chats.create or send_message: the call
\* starts as soon as _enforce_rate_limit returns
generate_content ==
    /\ pc = "rate"
    /\ \E late \in 0..MaxOversleep :
          LET r == _enforce_rate_limit(request_timestamps, rlNow, RpmLimit, late)
          IN  /\ r.time <= MaxClock
              /\ rlNow' = r.time
              /\ request_timestamps' = r.request_timestamps
              /\ started' = LastN(Append(started, r.time), RpmLimit + 1)
    /\ UNCHANGED << pipeVars, cacheVars, loopVars, auxVars >>

\* the worker does something else for d tenths of a second
Elapse(d) ==
    /\ pc = "rate"
    /\ rlNow + d <= MaxClock
    /\ rlNow' = rlNow + d
    /\ UNCHANGED << pipeVars, cacheVars, loopVars, request_timestamps, started, auxVars >>

NextRate ==
    \/ generate_content
    \/ \E d \in Advances : Elapse(d)

SpecRate == InitRate /\ [][NextRate]_vars

\* C12: when a rate-limited call starts, fewer than rpm_limit earlier calls
\* started in the 60 seconds up to that moment, so no 60-second window holds
\* more than rpm_limit starts.
C12_AtMostRpmLimitPerWindow ==
    started # << >> =>
        Cardinality({ i \in 1..(Len(started) - 1) :
                        started[Len(started)] - started[i] <= Window }) < RpmLimit

\* a call found the window full, waited and started as soon as it was allowed
C12_Witness ==
    /\ Len(started) = RpmLimit + 1
    /\ started[RpmLimit + 1] - started[1] = Window + Margin
    /\ Len(request_timestamps) = RpmLimit + 1

\* The steps that fetch: run, processLatestAnnouncement and one iteration of
\* run_continuous, for a given result of fetch_data.
TickOn(fetched) ==
    \/ run_on(fetched)
    \/ processLatestAnnouncement_on(fetched)
    \/ run_continuous_on(fetched)

\* the requests fail in one of the ways of FailureKinds until the attempts are exhausted
ExhaustedInputs(v) ==
    { i \in FetchInputs(v) : i.kind \in FailureKinds /\ i.fails = Attempts(v) }

\* C13: for every kind of failure, once the attempts are exhausted fetch_data
\* raises nothing and returns an empty result, and the step that fetched is
\* exactly a step the same code takes for a feed with no announcements.
C13_FetchFailureIsEmptyFeed ==
    [][ \A i \in ExhaustedInputs(variant) :
            LET fetched == fetch_data(variant, i)
            IN  /\ ~fetched.raised
                /\ fetched.none \/ fetched.list = << >>
                /\ TickOn(fetched) <=> TickOn(EmptyListing) ]_vars

\* a polling tick whose fetch failed while the exchange listed an announcement
\* not seen before: nothing was processed and the cursor was left alone
C13_Witness ==
    /\ lastFetch = "failed"
    /\ pc \in { "loop", "done" }
    /\ ticks >= 1
    /\ feed # << >>
    /\ cursor = << >>
    /\ calls = EmptyBag

\* the payloads a call of process_data wrote, sent or returned
PayloadsOf(r) ==
    { r.rows[k] : k \in DOMAIN r.rows } \cup { r.posts[k] : k \in DOMAIN r.posts }
        \cup { r.data[k] : k \in DOMAIN r.data }

\* C14: when the classifier runs for the attachment of a listed announcement
\* and fails, every payload process_data makes of it carries the default
\* category and no narrative.
C14_ClassifierFailureDefaults ==
    \A k \in DOMAIN feed : \A in \in Inputs(variant, launcher) :
        LET r == process_data(variant, feed[k], cacheMem, flagFile, now, in)
        IN  (in.pdf = "ai_error" /\ r.ai) =>
                \A p \in PayloadsOf(r) :
                    p.category = DefaultCategory /\ p.ai_summary = << >>

\* C15: every payload written to the store or sent to the broadcast endpoint
\* has a category that is set, never null.
C15_CategoryAlwaysSet ==
    \A p \in Rows \cup Posts : p.category # None

\* a payload of an announcement whose attachment could not be downloaded, and
\* one whose classification failed, were written or sent
C15_Witness ==
    /\ \E p \in Rows \cup Posts : p.ai_summary = << DownloadErrorText >>
    /\ \E p \in Rows \cup Posts : p.ai_summary = << ErrorText >>

\* C16: every announcement sent to the broadcast endpoint has a row in the
\* store, written before it was sent.
C16_BroadcastOnlyAfterPersisted ==
    \A p \in Posts : CountFor(store, p.a) >= 1

\* C17: when the store write for the newest announcement has failed
\* (bse_scraper.run_continuous with the first-run flag present, so that
\* process_data takes the save_to_database path: an attempt that left no row
\* is a failed write), a step in which it stays the newest makes no further
\* persistence attempt.
C17_FailedWriteNotRetried ==
    [][ ( /\ launcher = "main" /\ flagFile
          /\ feed # << >> /\ feed' = feed
          /\ CopiesIn(feed[1], attempts) >= 1
          /\ CountFor(store, feed[1]) = 0 )
        => attempts' = attempts ]_vars

(***************************************************************************)
(* The broadcast endpoint insert_new_announcement.  An emit without a room *)
(* is the topic "all"; an emit with room=x is the topic of the field x was *)
(* read from.                                                              *)
(***************************************************************************)
TopicKinds == { "all", "isin", "symbol", "company", "category" }
Endpoints == { "liveserver", "server" }

\* liveserver.py: one socketio.emit without a room.  server.py: one without a
\* room, one to the room of the ISIN and one to the room of the symbol, each
\* when the field is there.
insert_new_announcement(ep, has_isin, has_symbol) ==
    IF ep = "liveserver" THEN { "all" }
    ELSE { "all" } \cup (IF has_isin THEN { "isin" } ELSE {})
                   \cup (IF has_symbol THEN { "symbol" } ELSE {})

\* C18: an announcement the endpoint accepts (new_scraper and nse_scraper
\* under liveserver, whose POST is answered 200) is published to each of the
\* topics all, ISIN, symbol, company and category.
C18_PublishedToEveryTopic ==
    (launcher = "liveserver" /\ variant # "bse") =>
        \A p \in Posts : \A ep \in Endpoints :
            TopicKinds \subseteq insert_new_announcement(ep, p.isin # << >>, TRUE)

(***************************************************************************)
(* The polling loops: run_continuous of bse_scraper and nse_scraper (the   *)
(* launcher "main") and the while True of start_scraper, start_scraper_bse *)
(* and start_scraper_nse.  One thread; a tick either returns or raises at  *)
(* one of its stages.                                                      *)
(***************************************************************************)
ApiCheckPeriod == 10
Stages == { "fetch", "classification", "persistence", "broadcast" }
LoopConfigs == Configs \cup { << "nse", "main" >> }

InitLoop ==
    /\ \E cfg \in LoopConfigs : variant = cfg[1] /\ launcher = cfg[2]
    /\ listedIsin = ValidIsin
    /\ lastFetch = "none"
    /\ temp_dir = {}
    /\ feed = << >>
    /\ now = MaxDate + RecencyHours
    /\ flagFile = FALSE
    /\ cursor = << >>
    /\ cacheMem = NewCache(DefaultMaxSize)
    /\ cacheFile = << >>
    /\ store = EmptyBag /\ sent = EmptyBag /\ attempts = EmptyBag /\ calls = EmptyBag
    /\ aiCalls = {}
    /\ pc = IF launcher = "main" THEN "loop_tick" ELSE "loop_sleep"
    /\ queue = << >>
    /\ processed_count = 0
    /\ initial = FALSE
    /\ backfill = FALSE
    /\ ticks = 0
    /\ kind = "none" /\ lc = NewServingCache(CacheMaxSize)
    /\ order = [ ids |-> << >>, hashes |-> << >> ] /\ nAdds = 0 /\ hit = FALSE
    /\ RateIdle
    /\ LoopIdle
    /\ AuxIdle

\* time.sleep(check_interval) is over and the next tick starts;
\* nse_scraper.run_continuous first counts the iteration and asks
\* check_api_health again on every tenth.
StartTick ==
    /\ pc = "loop_sleep"
    /\ pc' = "loop_tick"
    /\ IF variant = "nse" /\ launcher = "main"
       THEN IF api_check_counter + 1 >= ApiCheckPeriod
            THEN api_check_counter' = 0 /\ api_available' \in BOOLEAN
            ELSE api_check_counter' = api_check_counter + 1 /\ UNCHANGED api_available
       ELSE UNCHANGED << api_check_counter, api_available >>
    /\ UNCHANGED << variant, launcher, listedIsin, temp_dir, lastFetch, feed, now, flagFile, cursor, cacheMem,
                    cacheFile, store, sent, aiCalls, calls, attempts, queue, processed_count,
                    initial, backfill, ticks, cacheVars, rateVars, raisedAt, auxVars >>

\* the tick raises an Exception at one of its stages
TickRaises(stage) ==
    /\ pc = "loop_tick"
    /\ pc' = "loop_caught"
    /\ raisedAt' = stage
    /\ UNCHANGED << variant, launcher, listedIsin, temp_dir, lastFetch, feed, now, flagFile, cursor, cacheMem,
                    cacheFile, store, sent, aiCalls, calls, attempts, queue, processed_count,
                    initial, backfill, ticks, cacheVars, rateVars, api_check_counter, api_available, auxVars >>

\* the tick returns
TickReturns ==
    /\ pc = "loop_tick"
    /\ pc' = "loop_sleep"
    /\ raisedAt' = "none"
    /\ UNCHANGED << variant, launcher, listedIsin, temp_dir, lastFetch, feed, now, flagFile, cursor, cacheMem,
                    cacheFile, store, sent, aiCalls, calls, attempts, queue, processed_count,
                    initial, backfill, ticks, cacheVars, rateVars, api_check_counter, api_available, auxVars >>

CaughtStops ==
    /\ pc = "loop_caught"
    /\ pc' = "stopped"
    /\ UNCHANGED << variant, launcher, listedIsin, temp_dir, lastFetch, feed, now, flagFile, cursor, cacheMem,
                    cacheFile, store, sent, aiCalls, calls, attempts, queue, processed_count,
                    initial, backfill, ticks, cacheVars, rateVars, loopVars, auxVars >>
\* except Exception: the error is logged and the loop goes on with the wait
Caught ==
    /\ pc = "loop_caught"
    /\ pc' = "loop_sleep"
    /\ UNCHANGED << variant, launcher, listedIsin, temp_dir, lastFetch, feed, now, flagFile, cursor, cacheMem,
                    cacheFile, store, sent, aiCalls, calls, attempts, queue, processed_count,
                    initial, backfill, ticks, cacheVars, rateVars, loopVars, auxVars >>

NextLoop ==
    \/ StartTick
    \/ \E stage \in Stages : TickRaises(stage)
    \/ TickReturns
    \/ Caught

\* The loop is one thread that does nothing else: the wait ends and the
\* except clause runs to its end.
SpecLoop == InitLoop /\ [][NextLoop]_vars /\ WF_vars(StartTick) /\ WF_vars(Caught)

\* C19: no tick error ends the worker, and after a tick that raised, at
\* whatever stage, a further tick always eventually runs.
C19_LoopSelfHealing ==
    /\ [](pc # "stopped")
    /\ \A stage \in Stages :
          (pc = "loop_caught" /\ raisedAt = stage) ~> (pc = "loop_tick")

\* a tick is running after the one before it raised at the persistence stage
C19_Witness ==
    /\ pc = "loop_tick"
    /\ raisedAt = "persistence"

\* the paths by which process_pdf returns
ReturnPaths == { "download_error", "ai_error", "classified", "over_pages", "unexpected" }

Environments == [ GEMINI_API_KEY : BOOLEAN, SUPABASE_URL : BOOLEAN, SUPABASE_KEY : BOOLEAN ]

InitBoot ==
    /\ \E cfg \in Configs : variant = cfg[1] /\ launcher = cfg[2]
    /\ listedIsin = ValidIsin
    /\ lastFetch = "none"
    /\ temp_dir = {}
    /\ feed = << >>
    /\ now = MaxDate + RecencyHours
    /\ flagFile = FALSE
    /\ cursor = << >>
    /\ cacheMem = NewCache(DefaultMaxSize)
    /\ cacheFile = << >>
    /\ store = EmptyBag /\ sent = EmptyBag /\ attempts = EmptyBag /\ calls = EmptyBag
    /\ aiCalls = {}
    /\ pc = "import"
    /\ queue = << >>
    /\ processed_count = 0
    /\ initial = TRUE
    /\ backfill = FALSE
    /\ ticks = 0
    /\ kind = "none" /\ lc = NewServingCache(CacheMaxSize)
    /\ order = [ ids |-> << >>, hashes |-> << >> ] /\ nAdds = 0 /\ hit = FALSE
    /\ RateIdle
    /\ LoopIdle
    /\ env \in Environments
    /\ BroadcastIdle
    /\ WatchIdle
    /\ AuthIdle
    /\ RetryIdle
    /\ IngestIdle
    /\ ExtraIdle

\* import bse_scraper / new_scraper / nse_scraper
import_module ==
    /\ pc = "import"
    /\ pc' = IF module_init(variant, env) = "imported" THEN "boot" ELSE "import_error"
    /\ UNCHANGED << variant, launcher, listedIsin, lastFetch, temp_dir, feed, now, flagFile, cursor,
                    cacheMem, cacheFile, store, sent, aiCalls, calls, attempts, queue,
                    processed_count, initial, backfill, ticks, cacheVars, rateVars, loopVars, auxVars >>

NextBoot ==
    \/ import_module
    \/ \E a \in Universe(variant) : Publish(a)
    \/ start_scraper
    \/ run
    \/ ProcessNext
    \/ BatchDone
    \/ processLatestAnnouncement
    \/ RunReturn
    \/ NextTick
    \/ run_continuous

SpecBoot == InitBoot /\ [][NextBoot]_vars

HalfConfigured == ~env.GEMINI_API_KEY \/ ~env.SUPABASE_URL \/ ~env.SUPABASE_KEY

\* C21: when the classifier key, the store URL or the store key is missing at
\* process start the scraper raises at once and the pipeline never runs: no
\* fetch, no processing, no polling tick.
C21_MissingCredentialStopsPipeline ==
    HalfConfigured =>
        /\ lastFetch = "none"
        /\ calls = EmptyBag
        /\ ticks = 0

\* C22: a record rejected for a validation reason is not retried.  Under
\* bse_scraper.run_continuous with a company whose ISIN fails the format test,
\* every process_data call ends in that rejection; once the newest record has
\* been through one, a step in which it stays the newest runs no further
\* process_data on it.
C22_RejectedNotRetried ==
    [][ ( /\ launcher = "main" /\ BseIsinRejected(listedIsin)
          /\ feed # << >> /\ feed' = feed
          /\ CopiesIn(feed[1], calls) >= 1
          /\ CopiesIn(feed[1], attempts) = 0 )
        => calls' = calls ]_vars

(***************************************************************************)
(* SpecBroadcast: should_broadcast on any announcement, and the branch of  *)
(* process_data its answer selects.                                        *)
(***************************************************************************)
BroadcastInputs ==
    [ first_run : BOOLEAN,
      duplicate : BOOLEAN,
      field : { << >> } \cup { << d >> : d \in DateValues(0..MaxNow) },
      current_time : Nows ]

InitBroadcast ==
    /\ variant = "bse" /\ launcher = "main"
    /\ listedIsin = ValidIsin
    /\ lastFetch = "none"
    /\ temp_dir = {}
    /\ feed = << >>
    /\ now = MaxDate + RecencyHours
    /\ flagFile = FALSE
    /\ cursor = << >>
    /\ cacheMem = NewCache(DefaultMaxSize)
    /\ cacheFile = << >>
    /\ store = EmptyBag /\ sent = EmptyBag /\ attempts = EmptyBag /\ calls = EmptyBag
    /\ aiCalls = {}
    /\ pc = "should_broadcast"
    /\ queue = << >>
    /\ processed_count = 0
    /\ initial = FALSE
    /\ backfill = FALSE
    /\ ticks = 0
    /\ kind = "none" /\ lc = NewServingCache(CacheMaxSize)
    /\ order = [ ids |-> << >>, hashes |-> << >> ] /\ nAdds = 0 /\ hit = FALSE
    /\ RateIdle
    /\ LoopIdle
    /\ BootIdle
    /\ WatchIdle
    /\ AuthIdle
    /\ RetryIdle
    /\ IngestIdle
    /\ ExtraIdle
    /\ bcIn \in BroadcastInputs
    /\ bcOut = << >>

\* process_data from the call of should_broadcast to the choice between
\* broadcast_announcement and save_to_database
CallShouldBroadcast ==
    /\ pc = "should_broadcast"
    /\ bcOut = << >>
    /\ LET r == should_broadcast_on(bcIn.first_run, bcIn.duplicate, bcIn.field, bcIn.current_time)
       IN  bcOut' = << [ ret |-> r.ret, raised |-> r.raised,
                         path |-> IF r.raised THEN "except"
                                  ELSE IF r.ret THEN "broadcast_announcement"
                                  ELSE "save_to_database" ] >>
    /\ UNCHANGED << pipeVars, cacheVars, rateVars, loopVars, bootVars, bcIn, watchVars, authVars, retryVars, ingestVars, extraVars >>

NextBroadcast == CallShouldBroadcast

SpecBroadcast == InitBroadcast /\ [][NextBroadcast]_vars

\* the submission date is missing, is not a string, or no accepted format
\* parses it
Unusable(field) ==
    \/ field = << >>
    \/ field[1].type # "str"
    \/ field[1].form \in { "text", "empty" }

\* C23: should_broadcast returns false for every announcement whose
\* submission date is missing, is not a string or parses under no accepted
\* format; such a date leads to no broadcast and no exception leaves
\* should_broadcast.
C23_UnusableDateNotBroadcast ==
    (bcOut # << >> /\ Unusable(bcIn.field)) =>
        /\ ~bcOut[1].ret
        /\ ~bcOut[1].raised
        /\ bcOut[1].path = "save_to_database"

C23_Witness ==
    /\ bcOut # << >>
    /\ ~bcIn.first_run /\ ~bcIn.duplicate
    /\ bcIn.field = << StrDate("text", 0) >>
    /\ ~bcOut[1].ret

(***************************************************************************)
(* SpecWatch: the watchlist API of liveserver over its two tables.         *)
(* watchlistnamedata holds one row per watchlist; watchlistdata holds one  *)
(* row per ISIN of a watchlist (category null) and one row for its         *)
(* category (isin null).  A query answers the rows in stored order; the    *)
(* store answers every query.  watchlistdata.watchlistid references        *)
(* watchlistnamedata ON DELETE CASCADE, as delete_watchlist relies on.     *)
(***************************************************************************)
MaxWatchlists == 3
MaxRequests == 4

\* the user whose requests are followed; an account of another user exists
current_users == { "u1" }

WatchlistIds == 1..MaxWatchlists

\* what a request can carry as isin and as category
IsinArgs == { NullIsin, ValidIsin, ForeignIsin, ShortIsin }
CategoryArgs == { None, "Financial Results" }

AlNum ==
    { "A", "E", "I", "N", "S", "U", "0", "1", "2", "3", "5", "7", "8" }

\* isinstance(isin, str) and len(isin) == 12 and isin.isalnum()
IsinFormatOk(isin) == Len(isin) = 12 /\ \A k \in 1..Len(isin) : isin[k] \in AlNum

NameRow(watchlist_id, watchlist_name, user_id) ==
    [ watchlistid |-> watchlist_id, watchlistname |-> watchlist_name, userid |-> user_id ]

DataRow(watchlist_id, user_id, isin, category) ==
    [ watchlistid |-> watchlist_id, userid |-> user_id, isin |-> isin, category |-> category ]

\* .eq('isin', value): a comparison with null matches no row
eq(x, value) == value # NullIsin /\ x = value

\* supabase.table('watchlistdata').select(...).eq('watchlistid', w).eq('userid', u)
RowsOf(data, watchlist_id, user_id) ==
    SelectSeq(data, LAMBDA r : r.watchlistid = watchlist_id /\ r.userid = user_id)

\* ... .is_('category', 'null'): the ISIN rows
IsinRows(data, watchlist_id, user_id) ==
    SelectSeq(RowsOf(data, watchlist_id, user_id), LAMBDA r : r.category = None)

\* ... .is_('isin', 'null'): the category rows
CategoryRows(data, watchlist_id, user_id) ==
    SelectSeq(RowsOf(data, watchlist_id, user_id), LAMBDA r : r.isin = NullIsin)

\* the watchlistnamedata rows with .eq('watchlistid', w).eq('userid', u)
wl_check(names, watchlist_id, user_id) ==
    SelectSeq(names, LAMBDA e : e.watchlistid = watchlist_id /\ e.userid = user_id)

\* GET /api/watchlist: the body's watchlists
get_watchlist(names, data, user_id) ==
    LET watchlist_meta == SelectSeq(names, LAMBDA e : e.userid = user_id) IN
    [ k \in 1..Len(watchlist_meta) |->
        LET entry == watchlist_meta[k]
            isin_response == IsinRows(data, entry.watchlistid, user_id)
            cat_response == CategoryRows(data, entry.watchlistid, user_id)
        IN  [ id |-> entry.watchlistid,
              watchlistName |-> entry.watchlistname,
              category |-> IF cat_response # << >> THEN cat_response[1].category ELSE None,
              isin |-> [ j \in 1..Len(isin_response) |-> isin_response[j].isin ] ] ]

\* register: the account's initial watchlist
InitialWatchlist(watchlist_id, user_id) == NameRow(watchlist_id, "Real Time Alerts", user_id)

Served(op, user_id, watchlist_id, isin, category, status) ==
    /\ response' = [ op |-> op, user_id |-> user_id, watchlist_id |-> watchlist_id, isin |-> isin,
                     category |-> category, status |-> status ]
    /\ nReq' = nReq + 1

InitWatch ==
    /\ variant = "new" /\ launcher = "liveserver"
    /\ listedIsin = ValidIsin
    /\ lastFetch = "none"
    /\ temp_dir = {}
    /\ feed = << >>
    /\ now = MaxDate + RecencyHours
    /\ flagFile = FALSE
    /\ cursor = << >>
    /\ cacheMem = NewCache(DefaultMaxSize)
    /\ cacheFile = << >>
    /\ store = EmptyBag /\ sent = EmptyBag /\ attempts = EmptyBag /\ calls = EmptyBag
    /\ aiCalls = {}
    /\ pc = "serving"
    /\ queue = << >>
    /\ processed_count = 0
    /\ initial = FALSE
    /\ backfill = FALSE
    /\ ticks = 0
    /\ kind = "none" /\ lc = NewServingCache(CacheMaxSize)
    /\ order = [ ids |-> << >>, hashes |-> << >> ] /\ nAdds = 0 /\ hit = FALSE
    /\ RateIdle
    /\ LoopIdle
    /\ BootIdle
    /\ BroadcastIdle
    /\ AuthIdle
    /\ RetryIdle
    /\ IngestIdle
    /\ ExtraIdle
    /\ watchlistnamedata = << InitialWatchlist(1, "u1"), InitialWatchlist(2, "u2") >>
    /\ watchlistdata = << >>
    /\ next_uuid = 3
    /\ nReq = 0
    /\ response = [ op |-> "none", user_id |-> "none", watchlist_id |-> 0, isin |-> NullIsin, category |-> None, status |-> 0 ]

WatchFrame ==
    UNCHANGED << pipeVars, cacheVars, rateVars, loopVars, bootVars, broadcastVars, authVars, retryVars,
                 ingestVars, extraVars >>

\* POST /api/watchlist, operation create
create_watchlist(user_id, watchlist_name) ==
    /\ pc = "serving" /\ nReq < MaxRequests
    /\ next_uuid <= MaxWatchlists
    /\ watchlistnamedata' = Append(watchlistnamedata, NameRow(next_uuid, watchlist_name, user_id))
    /\ next_uuid' = next_uuid + 1
    /\ Served("create", user_id, next_uuid, NullIsin, None, 201)
    /\ UNCHANGED watchlistdata
    /\ WatchFrame

\* the rows of watchlistdata after the category step of add_isin
WithCategory(data, watchlist_id, user_id, category) ==
    IF category = None THEN data
    ELSE IF CategoryRows(data, watchlist_id, user_id) # << >>
         THEN [ k \in 1..Len(data) |->
                  IF /\ data[k].watchlistid = watchlist_id /\ data[k].userid = user_id
                     /\ data[k].isin = NullIsin
                  THEN [ data[k] EXCEPT !.category = category ]
                  ELSE data[k] ]
         ELSE Append(data, DataRow(watchlist_id, user_id, NullIsin, category))

\* add_isin: [status, data]
add_isin(names, data, user_id, watchlist_id, isin, category) ==
    IF isin # NullIsin /\ ~IsinFormatOk(isin)
    THEN [ status |-> 400, data |-> data ]
    ELSE IF SelectSeq(RowsOf(data, watchlist_id, user_id), LAMBDA r : eq(r.isin, isin)) # << >>
    THEN [ status |-> 409, data |-> data ]
    ELSE IF \A k \in 1..Len(names) : names[k].watchlistid # watchlist_id
    THEN [ status |-> 500, data |-> data ]
    ELSE [ status |-> 201,
           data |-> Append(WithCategory(data, watchlist_id, user_id, category),
                           DataRow(watchlist_id, user_id, isin, None)) ]

\* POST /api/watchlist, operation add_isin
AddIsin(user_id, watchlist_id, isin, category) ==
    /\ pc = "serving" /\ nReq < MaxRequests
    /\ LET r == add_isin(watchlistnamedata, watchlistdata, user_id, watchlist_id, isin, category)
       IN  /\ watchlistdata' = r.data
           /\ Served("add_isin", user_id, watchlist_id, isin, category, r.status)
    /\ UNCHANGED << watchlistnamedata, next_uuid >>
    /\ WatchFrame

\* DELETE /api/watchlist/<watchlist_id>/isin/<isin>
remove_from_watchlist(user_id, watchlist_id, isin) ==
    /\ pc = "serving" /\ nReq < MaxRequests
    /\ LET kept == SelectSeq(watchlistdata,
                     LAMBDA r : ~(r.watchlistid = watchlist_id /\ r.userid = user_id /\ r.isin = isin))
       IN  IF wl_check(watchlistnamedata, watchlist_id, user_id) = << >>
           THEN UNCHANGED watchlistdata /\ Served("remove_isin", user_id, watchlist_id, isin, None, 404)
           ELSE IF Len(kept) = Len(watchlistdata)
           THEN UNCHANGED watchlistdata /\ Served("remove_isin", user_id, watchlist_id, isin, None, 404)
           ELSE watchlistdata' = kept /\ Served("remove_isin", user_id, watchlist_id, isin, None, 200)
    /\ UNCHANGED << watchlistnamedata, next_uuid >>
    /\ WatchFrame

\* delete_watchlist: [status, names, data]
delete_rows_any_owner(names, data, user_id, watchlist_id) ==
    [ status |-> 200,
      names |-> SelectSeq(names, LAMBDA e : e.watchlistid # watchlist_id),
      data |-> SelectSeq(data, LAMBDA r : r.watchlistid # watchlist_id) ]
delete_rows(names, data, user_id, watchlist_id) ==
    IF wl_check(names, watchlist_id, user_id) = << >>
    THEN [ status |-> 404, names |-> names, data |-> data ]
    ELSE [ status |-> 200,
           names |-> SelectSeq(names,
                        LAMBDA e : ~(e.watchlistid = watchlist_id /\ e.userid = user_id)),
           data |-> SelectSeq(data, LAMBDA r : r.watchlistid # watchlist_id) ]

\* DELETE /api/watchlist/<watchlist_id>
delete_watchlist(user_id, watchlist_id) ==
    /\ pc = "serving" /\ nReq < MaxRequests
    /\ LET r == delete_rows(watchlistnamedata, watchlistdata, user_id, watchlist_id)
       IN  /\ watchlistnamedata' = r.names
           /\ watchlistdata' = r.data
           /\ Served("delete", user_id, watchlist_id, NullIsin, None, r.status)
    /\ UNCHANGED next_uuid
    /\ WatchFrame

\* POST /api/watchlist/<watchlist_id>/clear
clear_watchlist(user_id, watchlist_id) ==
    /\ pc = "serving" /\ nReq < MaxRequests
    /\ IF wl_check(watchlistnamedata, watchlist_id, user_id) = << >>
       THEN UNCHANGED watchlistdata /\ Served("clear", user_id, watchlist_id, NullIsin, None, 404)
       ELSE /\ watchlistdata' =
                 SelectSeq(watchlistdata,
                     LAMBDA r : ~(r.watchlistid = watchlist_id /\ r.userid = user_id /\ r.isin # NullIsin))
            /\ Served("clear", user_id, watchlist_id, NullIsin, None, 200)
    /\ UNCHANGED << watchlistnamedata, next_uuid >>
    /\ WatchFrame

NextWatch ==
    \E user_id \in current_users :
        \/ create_watchlist(user_id, "My Watchlist")
        \/ \E w \in WatchlistIds, isin \in IsinArgs, category \in CategoryArgs :
               AddIsin(user_id, w, isin, category)
        \/ \E w \in WatchlistIds, isin \in IsinArgs \ { NullIsin } : remove_from_watchlist(user_id, w, isin)
        \/ \E w \in WatchlistIds : delete_watchlist(user_id, w)
        \/ \E w \in WatchlistIds : clear_watchlist(user_id, w)

SpecWatch == InitWatch /\ [][NextWatch]_vars

\* what the next GET /api/watchlist answers the user, before and after a step
Before(user_id) == get_watchlist(watchlistnamedata, watchlistdata, user_id)
After(user_id) == get_watchlist(watchlistnamedata', watchlistdata', user_id)

Elems(q) == { q[k] : k \in 1..Len(q) }

\* the step serves a request of this kind with this status
Answered(op, status) ==
    /\ nReq' = nReq + 1
    /\ response'.op = op
    /\ response'.status = status

\* C24: after add_isin(w, i) has reported success, the next get-watchlists
\* lists i in the isin list of w.
C24_AddedIsinListed ==
    [][ (Answered("add_isin", 201) /\ response'.isin # NullIsin) =>
          \E e \in Elems(After(response'.user_id)) :
              /\ e.id = response'.watchlist_id
              /\ response'.isin \in Elems(e.isin) ]_vars

\* C25: add_isin with a category and a null isin, on a watchlist of the
\* user, succeeds and sets the category; the isin list of the watchlist gains
\* no entry.
C25_CategoryOnlyAddsNoEntry ==
    [][ \A k \in 1..Len(Before(response'.user_id)) :
          ( /\ Answered("add_isin", 201)
            /\ response'.isin = NullIsin /\ response'.category # None
            /\ Before(response'.user_id)[k].id = response'.watchlist_id )
          => /\ After(response'.user_id)[k].category = response'.category
             /\ After(response'.user_id)[k].isin = Before(response'.user_id)[k].isin ]_vars

\* C26: after clear_watchlist(w) has reported success the isin list of w is
\* empty, w keeps its name and its category, and every other watchlist of the
\* user is unchanged.
C26_ClearEmptiesIsinList ==
    [][ Answered("clear", 200) =>
          /\ Len(After(response'.user_id)) = Len(Before(response'.user_id))
          /\ \A k \in 1..Len(Before(response'.user_id)) :
               LET b == Before(response'.user_id)[k]
                   a == After(response'.user_id)[k]
               IN  IF b.id = response'.watchlist_id
                   THEN a = [ b EXCEPT !.isin = << >> ]
                   ELSE a = b ]_vars

\* C27: after delete_watchlist(w) has reported success w is gone from
\* get-watchlists and every other watchlist is unchanged; a delete of a
\* watchlist the user does not own answers 404 and changes nothing.
C27_DeleteRemovesOnlyOwned ==
    [][ \A user_id \in current_users, w \in WatchlistIds :
          (nReq' = nReq + 1 /\ response'.op = "delete"
             /\ response'.user_id = user_id /\ response'.watchlist_id = w) =>
            /\ response'.status = 200 =>
                 After(user_id) = SelectSeq(Before(user_id), LAMBDA e : e.id # w)
            /\ wl_check(watchlistnamedata, w, user_id) = << >> =>
                 /\ response'.status = 404
                 /\ watchlistnamedata' = watchlistnamedata
                 /\ watchlistdata' = watchlistdata ]_vars

C27_Witness ==
    /\ response.op = "delete" /\ response.status = 200
    /\ \E e \in Elems(get_watchlist(watchlistnamedata, watchlistdata, response.user_id)) :
           e.isin # << >>

(***************************************************************************)
(* SpecAuth: register, login, logout and the auth_required decorator of    *)
(* liveserver over the table UserData.  generate_access_token answers a    *)
(* token it has not answered before; the store answers every query.        *)
(***************************************************************************)
MaxTokens == 4

\* what a request can carry after "Bearer ": a token handed out or not yet,
\* or nothing
TokenArgs == 0..MaxTokens

\* the password sent is the account's, or it is not
PasswordArgs == { "right", "wrong" }

\* auth_required: [status, current_user]; status 200 says the decorated
\* function runs for current_user
auth_required(users, token) ==
    IF token = NullToken THEN [ status |-> 401, current_user |-> "none" ]
    ELSE LET matching == { e \in DOMAIN users : users[e].AccessToken = token } IN
         IF matching = {} THEN [ status |-> 401, current_user |-> "none" ]
         ELSE [ status |-> 200, current_user |-> CHOOSE e \in matching : TRUE ]

\* supabase.table('UserData').update({'AccessToken': token}).eq('UserID', ...)
update_AccessToken(users, user_id, token) ==
    [ users EXCEPT ![user_id] = [ @ EXCEPT !.AccessToken = token ] ]

logout_keeps_token(users, user_id) == users
\* logout: the token is invalidated by setting it to null
logout_update(users, user_id) == update_AccessToken(users, user_id, NullToken)

InitAuth ==
    /\ variant = "new" /\ launcher = "liveserver"
    /\ listedIsin = ValidIsin
    /\ lastFetch = "none"
    /\ temp_dir = {}
    /\ feed = << >>
    /\ now = MaxDate + RecencyHours
    /\ flagFile = FALSE
    /\ cursor = << >>
    /\ cacheMem = NewCache(DefaultMaxSize)
    /\ cacheFile = << >>
    /\ store = EmptyBag /\ sent = EmptyBag /\ attempts = EmptyBag /\ calls = EmptyBag
    /\ aiCalls = {}
    /\ pc = "serving"
    /\ queue = << >>
    /\ processed_count = 0
    /\ initial = FALSE
    /\ backfill = FALSE
    /\ ticks = 0
    /\ kind = "none" /\ lc = NewServingCache(CacheMaxSize)
    /\ order = [ ids |-> << >>, hashes |-> << >> ] /\ nAdds = 0 /\ hit = FALSE
    /\ RateIdle
    /\ LoopIdle
    /\ BootIdle
    /\ BroadcastIdle
    /\ WatchIdle
    /\ AuthIdle
    /\ RetryIdle
    /\ IngestIdle
    /\ ExtraIdle

AuthFrame ==
    UNCHANGED << pipeVars, cacheVars, rateVars, loopVars, bootVars, broadcastVars, watchVars, retryVars,
                 ingestVars, extraVars >>

Answer(op, email, token, status) ==
    authResponse' = [ op |-> op, email |-> email, token |-> token, status |-> status ]

\* the token has been handed to the account in the body of a 201 or a 200
Issue(email, token) ==
    /\ next_token' = token + 1
    /\ issued_to' = [ t \in DOMAIN issued_to \cup { token } |->
                        IF t = token THEN email ELSE issued_to[t] ]
    /\ last_issued' = [ last_issued EXCEPT ![email] = token ]
    /\ logged_out' = [ logged_out EXCEPT ![email] = FALSE ]

\* POST /api/register
register(email) ==
    /\ pc = "serving"
    /\ IF email \in DOMAIN UserData
       THEN /\ Answer("register", email, NullToken, 409)
            /\ UNCHANGED << UserData, next_token, issued_to, last_issued, logged_out >>
       ELSE /\ next_token <= MaxTokens
            /\ UserData' = [ e \in DOMAIN UserData \cup { email } |->
                               IF e = email THEN [ emailID |-> email, AccessToken |-> next_token ]
                               ELSE UserData[e] ]
            /\ Issue(email, next_token)
            /\ Answer("register", email, next_token, 201)
    /\ AuthFrame

\* POST /api/login
login(email, password) ==
    /\ pc = "serving"
    /\ IF email \notin DOMAIN UserData \/ password # "right"
       THEN /\ Answer("login", email, NullToken, 401)
            /\ UNCHANGED << UserData, next_token, issued_to, last_issued, logged_out >>
       ELSE /\ next_token <= MaxTokens
            /\ UserData' = update_AccessToken(UserData, email, next_token)
            /\ Issue(email, next_token)
            /\ Answer("login", email, next_token, 200)
    /\ AuthFrame

\* POST /api/logout, behind auth_required
logout(token) ==
    /\ pc = "serving"
    /\ LET auth == auth_required(UserData, token) IN
         IF auth.status # 200
         THEN /\ Answer("logout", auth.current_user, token, auth.status)
              /\ UNCHANGED << UserData, logged_out >>
         ELSE /\ UserData' = logout_update(UserData, auth.current_user)
              /\ logged_out' = [ logged_out EXCEPT ![auth.current_user] = TRUE ]
              /\ Answer("logout", auth.current_user, token, 200)
    /\ UNCHANGED << next_token, issued_to, last_issued >>
    /\ AuthFrame

\* any other endpoint behind auth_required, such as GET /api/watchlist
Request(token) ==
    /\ pc = "serving"
    /\ LET auth == auth_required(UserData, token) IN
         Answer("request", auth.current_user, token, auth.status)
    /\ UNCHANGED << UserData, next_token, issued_to, last_issued, logged_out >>
    /\ AuthFrame

NextAuth ==
    \/ \E email \in Emails : register(email)
    \/ \E email \in Emails, password \in PasswordArgs : login(email, password)
    \/ \E token \in TokenArgs : logout(token)
    \/ \E token \in TokenArgs : Request(token)

SpecAuth == InitAuth /\ [][NextAuth]_vars

\* the token is the one most recently handed to its account by register or
\* login, and the account has not logged out since
Current(token) ==
    /\ token \in DOMAIN issued_to
    /\ last_issued[issued_to[token]] = token
    /\ ~logged_out[issued_to[token]]

\* C28: a bearer token authenticates exactly when it is the token most
\* recently issued to its user by register or login and the user has not
\* logged out since; it then authenticates as that user, and every other
\* token is answered 401.
C28_LatestTokenAuthenticates ==
    \A token \in TokenArgs :
        LET auth == auth_required(UserData, token) IN
        /\ auth.status = 200 <=> Current(token)
        /\ auth.status = 200 => auth.current_user = issued_to[token]
        /\ auth.status # 200 => auth.status = 401
        /\ (authResponse.op = "request" /\ authResponse.token = token) =>
               authResponse.status = auth.status

\* a token was superseded by a later login, the later token was logged out,
\* and a request with the earlier token has just been answered 401
C28_Witness ==
    /\ authResponse.op = "request" /\ authResponse.status = 401
    /\ authResponse.token \in DOMAIN issued_to
    /\ \E later \in DOMAIN issued_to :
           /\ later > authResponse.token
           /\ issued_to[later] = issued_to[authResponse.token]
    /\ \E e \in Emails : logged_out[e]

\* C29: when the download of the attachment of a PDF announcement fails the
\* record is skipped: no row of the store and no broadcast request carries
\* the text process_pdf answers for a failed download.
C29_FailedDownloadSkipped ==
    \A p \in Rows \cup Posts : p.ai_summary # << DownloadErrorText >>

(***************************************************************************)
(* SpecRetry: the retrying call sites of the scrapers, one attempt a step. *)
(* The loops of fetch_data (bse_scraper, new_scraper), get_isin,           *)
(* process_pdf and the store insert count attempts 1..max_retries; the     *)
(* classifier wrappers generate_content and send_message do too;           *)
(* nse_scraper.fetch_data leaves the retries to the Retry strategy mounted *)
(* on its session.                                                         *)
(***************************************************************************)
RetrySites ==
    { "fetch_data", "nse_fetch_data", "get_isin", "process_pdf", "store_insert",
      "generate_content", "send_message" }

\* how an attempt can fail: a timeout, a 503 status, no connection
RetryFailures == { "timeout", "http", "conn" }

\* Retry(total=3, backoff_factor=1, status_forcelist=[429, 500, 502, 503, 504])
RetryTotal == 3
backoff_factor == 1

\* the attempts a call site makes when every one of them fails
attempts_allowed(site) ==
    IF site = "nse_fetch_data" THEN 1 + RetryTotal ELSE max_retries

\* whether the call site goes on after this failure: process_pdf returns on
\* an HTTPError; every other failure of every site is retried
retried(site, failure) == ~(site = "process_pdf" /\ failure = "http")

\* the seconds slept after failed attempt number attempt, when another
\* attempt follows: 2 ** attempt in the loops, 2 * attempt in the classifier
\* wrappers, Retry.get_backoff_time under the NSE session (nothing after the
\* first failure, then backoff_factor * 2 ** (n - 1))
backoff(site, attempt) ==
    CASE site \in { "generate_content", "send_message" } -> 2 * attempt
      [] site = "nse_fetch_data" ->
           IF attempt <= 1 THEN 0 ELSE backoff_factor * 2^(attempt - 1)
      [] OTHER -> 2^attempt

InitRetry ==
    /\ variant = "bse" /\ launcher = "main"
    /\ listedIsin = ValidIsin
    /\ lastFetch = "none"
    /\ temp_dir = {}
    /\ feed = << >>
    /\ now = MaxDate + RecencyHours
    /\ flagFile = FALSE
    /\ cursor = << >>
    /\ cacheMem = NewCache(DefaultMaxSize)
    /\ cacheFile = << >>
    /\ store = EmptyBag /\ sent = EmptyBag /\ attempts = EmptyBag /\ calls = EmptyBag
    /\ aiCalls = {}
    /\ pc = "retry"
    /\ queue = << >>
    /\ processed_count = 0
    /\ initial = FALSE
    /\ backfill = FALSE
    /\ ticks = 0
    /\ kind = "none" /\ lc = NewServingCache(CacheMaxSize)
    /\ order = [ ids |-> << >>, hashes |-> << >> ] /\ nAdds = 0 /\ hit = FALSE
    /\ RateIdle
    /\ LoopIdle
    /\ BootIdle
    /\ BroadcastIdle
    /\ WatchIdle
    /\ AuthIdle
    /\ IngestIdle
    /\ ExtraIdle
    /\ retry_site \in RetrySites
    /\ retry_attempt = 1
    /\ retry_log = << >>
    /\ retry_sleeps = << >>
    /\ retry_pc = "attempt"

RetryFrame ==
    UNCHANGED << pipeVars, cacheVars, rateVars, loopVars, bootVars, broadcastVars, watchVars,
                 authVars, retry_site, ingestVars, extraVars >>

\* the attempt in progress succeeds: the call site returns its result
AttemptSucceeds ==
    /\ pc = "retry" /\ retry_pc = "attempt"
    /\ retry_pc' = "returned"
    /\ UNCHANGED << retry_attempt, retry_log, retry_sleeps >>
    /\ RetryFrame

\* the attempt in progress fails: the call site sleeps and tries again, or
\* stops
AttemptFails(failure) ==
    /\ pc = "retry" /\ retry_pc = "attempt"
    /\ retry_log' = Append(retry_log, failure)
    /\ IF retried(retry_site, failure) /\ retry_attempt < attempts_allowed(retry_site)
       THEN /\ retry_sleeps' = Append(retry_sleeps, backoff(retry_site, retry_attempt))
            /\ retry_attempt' = retry_attempt + 1
            /\ UNCHANGED retry_pc
       ELSE /\ retry_pc' = IF retry_site \in { "generate_content", "send_message" }
                           THEN "raised" ELSE "gave_up"
            /\ UNCHANGED << retry_attempt, retry_sleeps >>
    /\ RetryFrame

NextRetry ==
    \/ AttemptSucceeds
    \/ \E failure \in RetryFailures : AttemptFails(failure)

SpecRetry == InitRetry /\ [][NextRetry]_vars

\* C30: every retrying call site makes at most max_retries attempts and then
\* stops; after failed attempt number k that is not the last it sleeps 2^k
\* seconds, and it does not sleep after the last attempt.
C30_BoundedRetriesWithBackoff ==
    /\ retry_attempt <= max_retries
    /\ \A k \in 1..Len(retry_sleeps) : retry_sleeps[k] = 2^k
    /\ retry_pc \in { "gave_up", "raised" } => Len(retry_sleeps) = Len(retry_log) - 1

\* C31: a transient failure of the attachment download (a timeout, a
\* connection error, a 5xx response) is retried up to the attempt ceiling
\* before the download is declared failed: process_pdf gives up only after
\* max_retries failed attempts.
C31_TransientDownloadFailureRetried ==
    retry_site = "process_pdf" /\ retry_pc = "gave_up" => Len(retry_log) = max_retries

\* C32: in incremental mode, that is in every tick after the first run, a
\* tick calls process_data on at most one announcement, however many the
\* fetched batch holds (for the launchers that call run() every tick, where
\* calls counts from the start of run()).
C32_IncrementalProcessesOnlyNewest ==
    (ticks >= 1 /\ launcher # "main" /\ pc \in { "batch", "latest", "done", "sleep" })
        => BagCardinality(calls) <= 1

(***************************************************************************)
(* SpecIngest: the endpoints a scraper POSTs a payload to.  liveserver.py  *)
(* routes /api/insert_new_announcement and /api/save_announcement,         *)
(* server.py routes /insert_new_announcement.  A payload is << >> (no      *)
(* JSON, or an empty object) or << data >>; of data the handlers read      *)
(* corp_id (0: none), whether summary is null, and whether isin and symbol *)
(* are there; is_fresh and broadcast are the flags a scraper sets.         *)
(***************************************************************************)
MaxPosts == 2

IngestPayloads ==
    { << >> } \cup
    { << d >> : d \in [ corp_id : 0..1, summary_null : BOOLEAN, isin : BOOLEAN,
                        symbol : BOOLEAN, is_fresh : BOOLEAN, broadcast : BOOLEAN ] }

Handled(server, route, data, status, emitted) ==
    [ server |-> server, route |-> route, data |-> data, status |-> status,
      emitted |-> emitted ]

InitIngest ==
    /\ variant = "bse" /\ launcher = "main"
    /\ listedIsin = ValidIsin
    /\ lastFetch = "none"
    /\ temp_dir = {}
    /\ feed = << >>
    /\ now = MaxDate + RecencyHours
    /\ flagFile = FALSE
    /\ cursor = << >>
    /\ cacheMem = NewCache(DefaultMaxSize)
    /\ cacheFile = << >>
    /\ store = EmptyBag /\ sent = EmptyBag /\ attempts = EmptyBag /\ calls = EmptyBag
    /\ aiCalls = {}
    /\ pc = "ingest"
    /\ queue = << >>
    /\ processed_count = 0
    /\ initial = FALSE
    /\ backfill = FALSE
    /\ ticks = 0
    /\ kind = "none" /\ lc = NewServingCache(CacheMaxSize)
    /\ order = [ ids |-> << >>, hashes |-> << >> ] /\ nAdds = 0 /\ hit = FALSE
    /\ RateIdle
    /\ LoopIdle
    /\ BootIdle
    /\ BroadcastIdle
    /\ WatchIdle
    /\ AuthIdle
    /\ RetryIdle
    /\ ingest = NoRequest
    /\ events = << >>
    /\ corporatefilings = << >>
    /\ nPosts = 0
    /\ ExtraIdle

IngestFrame ==
    UNCHANGED << pipeVars, cacheVars, rateVars, loopVars, bootVars, broadcastVars, watchVars,
                 authVars, retryVars, extraVars >>

\* POST to insert_new_announcement of liveserver.py or server.py: 400 on a
\* payload that is not there, else one emit for each topic and 200.
post_insert_new_announcement(server, data) ==
    /\ pc = "ingest" /\ nPosts < MaxPosts
    /\ nPosts' = nPosts + 1
    /\ IF data = << >>
       THEN /\ ingest' = Handled(server, "insert_new_announcement", data, 400, {})
            /\ UNCHANGED events
       ELSE LET rooms == insert_new_announcement(server, data[1].isin, data[1].symbol)
            IN  /\ ingest' = Handled(server, "insert_new_announcement", data, 200, rooms)
                /\ events' = Append(events, [ data |-> data[1], rooms |-> rooms ])
    /\ UNCHANGED corporatefilings
    /\ IngestFrame

\* POST to /api/save_announcement of liveserver.py: 400 on a payload that is
\* not there; the log line slices summary, which raises on null (500);
\* 503 without a store; the insert unless a row has the corp_id (200), 500
\* when the store raises.  It emits nothing.
save_announcement(data, supabase_connected, db) ==
    /\ pc = "ingest" /\ nPosts < MaxPosts
    /\ nPosts' = nPosts + 1
    /\ LET search_id == data[1].corp_id
           exists == search_id # 0 /\ \E k \in 1..Len(corporatefilings) :
                                        corporatefilings[k] = search_id
           status == IF data = << >> THEN 400
                     ELSE IF data[1].summary_null THEN 500
                     ELSE IF ~supabase_connected THEN 503
                     ELSE IF ~db THEN 500
                     ELSE 200
       IN  /\ ingest' = Handled("liveserver", "save_announcement", data, status, {})
           /\ corporatefilings' = IF status = 200 /\ ~exists
                                  THEN Append(corporatefilings, search_id)
                                  ELSE corporatefilings
    /\ UNCHANGED events
    /\ IngestFrame

NextIngest ==
    \/ \E server \in Endpoints, data \in IngestPayloads :
           post_insert_new_announcement(server, data)
    \/ \E data \in IngestPayloads, supabase_connected \in BOOLEAN, db \in BOOLEAN :
           save_announcement(data, supabase_connected, db)

SpecIngest == InitIngest /\ [][NextIngest]_vars

Flagged(data) == data # << >> /\ (data[1].is_fresh \/ data[1].broadcast)

\* C33: the ingestion endpoint fans a payload out over the socket channel if
\* and only if the payload carries the is_fresh or the broadcast flag; a
\* payload without either flag, and every payload sent to the save-only
\* endpoint, produces no new_announcement event.
C33_FanOutOnlyWhenFlagged ==
    /\ ingest.route = "insert_new_announcement" => (ingest.emitted # {} <=> Flagged(ingest.data))
    /\ ingest.route = "save_announcement" => ingest.emitted = {}
    /\ \A k \in 1..Len(events) : Flagged(<< events[k].data >>)

\* C34: within a backfill the announcements of the batch are handed to
\* process_data in the order the source returned them, the one at the lower
\* index first: the first announcement the batch loop of a backfill hands to
\* process_data is the first of the listing (feed does not change while the
\* launcher is in the batch loop).
C34_BackfillInBatchOrder ==
    [][ (pc = "batch" /\ backfill /\ calls = EmptyBag /\ calls' # EmptyBag)
           => CopiesIn(feed[1], calls') = 1 ]_vars

\* C35: the scraper's dedup cache is reloaded at startup so that a restart
\* does not replay history: every announcement the cache of the discarded
\* bse_scraper instance contained is contained in the cache the new instance
\* constructs.
C35_CacheSurvivesRestart ==
    [][ (pc = "sleep" /\ pc' = "run" /\ variant = "bse")
           => \A k \in 1..Len(feed) :
                  ScraperContains(cacheMem, feed[k]) => ScraperContains(cacheMem', feed[k]) ]_vars

\* C36: liveserver and the scraper it launches agree on the first-run marker:
\* the initial run() that liveserver starts after creating the marker file
\* executes in backfill mode, and every periodic run() after liveserver has
\* removed the marker executes in incremental mode, for the NSE worker as for
\* the BSE worker.
C36_LauncherAndScraperAgreeOnFirstRun ==
    (launcher = "liveserver" /\ pc \in { "batch", "latest", "done" }) => backfill = initial

(***************************************************************************)
(* SpecKeywords: check_for_negative_keywords on a headline as the feed     *)
(* delivers it.  The function is the same text in bse_scraper, new_scraper *)
(* and nse_scraper.  A headline is a string, null or a number; a string is *)
(* a sequence of phrases, each in a letter case.  The pipeline above knows *)
(* a headline by the set of keywords found in it (keywords_in).            *)
(***************************************************************************)
MaxPhrases == 2

Phrases ==
    { "Board", "Outcome", "General Updates", "Trading Window", "Record Date",
      "Advertisement(s)", "Onboarding", "Dividend" }
Cases == { "Title", "UPPER", "lower" }

Str(phrases) == [ type |-> "str", phrases |-> phrases ]

Summaries ==
    { Str(q) : q \in UNION { [ 1..n -> [ text : Phrases, case : Cases ] ] : n \in 0..MaxPhrases } }
        \cup { [ type |-> "null", phrases |-> << >> ], [ type |-> "int", phrases |-> << >> ] }

\* isinstance(summary, str)
isinstance_str(summary) == summary.type = "str"

\* str.lower(): the same phrases, every one in lower case
str_lower(phrases) == [ k \in 1..Len(phrases) |-> [ phrases[k] EXCEPT !.case = "lower" ] ]

\* the phrases of the model that hold a keyword as a substring, besides the
\* keyword itself
Within(keyword, text) ==
    \/ keyword = text
    \/ << keyword, text >> \in { << "Board", "Onboarding" >>,
                                 << "Advertisement", "Advertisement(s)" >> }

\* keyword.lower() in summary.lower()
keyword_in(keyword, summary) ==
    LET k == str_lower(<< [ text |-> keyword, case |-> "Title" ] >>)[1]
        lowered == str_lower(summary.phrases)
    IN  \E i \in 1..Len(lowered) : Within(k.text, lowered[i].text) /\ k.case = lowered[i].case

\* the keywords the two loops find in the headline
keywords_in(summary) ==
    { keyword \in special_keywords \cup negative_keywords : keyword_in(keyword, summary) }

\* check_for_negative_keywords, from the isinstance test on
check_for_negative_keywords_of(summary) ==
    IF ~isinstance_str(summary) THEN TRUE
    ELSE check_for_negative_keywords(keywords_in(summary))

InitKeywords ==
    /\ variant \in { "bse", "new", "nse" } /\ launcher = "main"
    /\ listedIsin = ValidIsin
    /\ lastFetch = "none"
    /\ temp_dir = {}
    /\ feed = << >>
    /\ now = MaxDate + RecencyHours
    /\ flagFile = FALSE
    /\ cursor = << >>
    /\ cacheMem = NewCache(DefaultMaxSize)
    /\ cacheFile = << >>
    /\ store = EmptyBag /\ sent = EmptyBag /\ attempts = EmptyBag /\ calls = EmptyBag
    /\ aiCalls = {}
    /\ pc = "keywords"
    /\ queue = << >>
    /\ processed_count = 0
    /\ initial = FALSE
    /\ backfill = FALSE
    /\ ticks = 0
    /\ kind = "none" /\ lc = NewServingCache(CacheMaxSize)
    /\ order = [ ids |-> << >>, hashes |-> << >> ] /\ nAdds = 0 /\ hit = FALSE
    /\ RateIdle
    /\ LoopIdle
    /\ BootIdle
    /\ BroadcastIdle
    /\ WatchIdle
    /\ AuthIdle
    /\ RetryIdle
    /\ IngestIdle
    /\ kw = << >>
    /\ cache_exc = "none"
    /\ ConcIdle

\* process_data calls check_for_negative_keywords on the headline
CallCheckForNegativeKeywords(summary) ==
    /\ pc = "keywords" /\ kw = << >>
    /\ kw' = << [ summary |-> summary, ret |-> check_for_negative_keywords_of(summary) ] >>
    /\ UNCHANGED << pipeVars, cacheVars, rateVars, loopVars, bootVars, broadcastVars, watchVars,
                    authVars, retryVars, ingestVars, cache_exc, concVars >>

NextKeywords == \E summary \in Summaries : CallCheckForNegativeKeywords(summary)

SpecKeywords == InitKeywords /\ [][NextKeywords]_vars

Holds(keywords, summary) == \E keyword \in keywords : keyword_in(keyword, summary)

\* C37: check_for_negative_keywords(h) is true exactly when h is not a
\* string, or h contains (case-insensitively, as a substring) at least one
\* negative keyword and no special keyword; a special keyword always
\* overrides a negative one, whichever scraper variant calls.
C37_NegativeUnlessSpecial ==
    \A call \in { kw[k] : k \in 1..Len(kw) } :
        call.ret <=> \/ call.summary.type # "str"
                     \/ /\ Holds(negative_keywords, call.summary)
                        /\ ~Holds(special_keywords, call.summary)

\* the headline holds a negative keyword in upper case and a special keyword
\* inside a longer word in lower case: the call returns False
C37_Witness ==
    /\ kw # << >>
    /\ kw[1].summary.type = "str"
    /\ kw[1].summary.phrases =
           << [ text |-> "Record Date", case |-> "UPPER" ],
              [ text |-> "Onboarding", case |-> "lower" ] >>
    /\ kw[1].ret = FALSE

\* C38: contains and add of the serving-tier AnnouncementCache never raise
\* for an Announcement-shaped payload, one whose ai_summary or summary is
\* null included.
C38_NullFieldsNeverRaise == kind = "serving" => cache_exc = "none"

\* C40: in the serving-tier AnnouncementCache the two indexes stay consistent
\* after any sequence of add, contains and evictions: every primary entry
\* that has a content hash has that hash in cache_by_content, every key of
\* cache_by_content is the content hash of some primary entry, and every
\* primary key is in access_order.
C40_IndexesConsistent ==
    kind = "serving" =>
        /\ \A k \in DOMAIN lc.cache :
               lc.cache[k] # << >> => lc.cache[k][1] \in DOMAIN lc.cache_by_content
        /\ \A h \in DOMAIN lc.cache_by_content :
               \E k \in DOMAIN lc.cache : lc.cache[k] = << h >>
        /\ \A k \in DOMAIN lc.cache :
               \E i \in 1..Len(lc.access_order) : lc.access_order[i] = k

(***************************************************************************)
(* SpecConcurrent: the watchlist handlers of server.py, which runs under   *)
(* gevent with the sockets patched: a request is a greenlet that yields at *)
(* every call of the store.  auth_required selects the user's row, the     *)
(* handler changes the WatchListID of that row in memory and writes the    *)
(* whole list back.  Two requests of one user; the store answers every     *)
(* call; a watchlist is [_id, isin].                                       *)
(***************************************************************************)
Requests == 1..2

\* str(uuid.uuid4()) of request r
uuid4(r) == 10 + r

Watchlist(id, isin) == [ _id |-> id, isin |-> isin ]

\* the list the user has when the requests arrive
StoredWatchlists == << Watchlist(1, << ValidIsin >>) >>

\* what a request asks for
WatchlistOps ==
    { [ operation |-> "create", watchlist_id |-> 0, isin |-> NullIsin ] }
        \cup { [ operation |-> o, watchlist_id |-> w, isin |-> i ] :
                 o \in { "add_isin", "remove" }, w \in { 1 }, i \in { ValidIsin, ForeignIsin } }
        \cup { [ operation |-> o, watchlist_id |-> w, isin |-> NullIsin ] :
                 o \in { "clear", "delete" }, w \in { 1, 2 } }

\* the for loop that looks for the target watchlist: its index, 0 if none
target_watchlist(watchlists, watchlist_id) ==
    IF \E k \in 1..Len(watchlists) : watchlists[k]._id = watchlist_id
    THEN CHOOSE k \in 1..Len(watchlists) :
             /\ watchlists[k]._id = watchlist_id
             /\ \A j \in 1..(k - 1) : watchlists[j]._id # watchlist_id
    ELSE 0

Has(q, x) == \E k \in 1..Len(q) : q[k] = x

\* list.remove(x): without the first occurrence of x
list_remove(q, x) ==
    LET k == CHOOSE j \in 1..Len(q) : q[j] = x /\ \A m \in 1..(j - 1) : q[m] # x
    IN  SubSeq(q, 1, k - 1) \o SubSeq(q, k + 1, Len(q))

Reply(status, update) == [ status |-> status, update |-> update ]

\* manage_watchlist, operation create and operation add_isin
server_manage_watchlist(watchlists, data, r) ==
    IF data.operation = "create"
    THEN Reply(201, << Append(watchlists, Watchlist(uuid4(r), << >>)) >>)
    ELSE IF data.isin = NullIsin \/ ~IsinFormatOk(data.isin) \/ data.watchlist_id = 0
         THEN Reply(400, << >>)
    ELSE LET t == target_watchlist(watchlists, data.watchlist_id) IN
         IF t = 0 THEN Reply(404, << >>)
         ELSE IF Has(watchlists[t].isin, data.isin) THEN Reply(409, << >>)
         ELSE Reply(201, << [ watchlists EXCEPT ![t].isin = Append(@, data.isin) ] >>)

server_remove_from_watchlist(watchlists, watchlist_id, isin) ==
    LET t == target_watchlist(watchlists, watchlist_id) IN
    IF watchlists = << >> \/ t = 0 THEN Reply(404, << >>)
    ELSE IF ~Has(watchlists[t].isin, isin) THEN Reply(404, << >>)
    ELSE Reply(200, << [ watchlists EXCEPT ![t].isin = list_remove(@, isin) ] >>)

\* delete_watchlist: a list left empty gets a new default watchlist
server_delete_watchlist(watchlists, watchlist_id, r) ==
    LET updated_watchlists == SelectSeq(watchlists, LAMBDA w : w._id # watchlist_id) IN
    IF watchlists = << >> \/ target_watchlist(watchlists, watchlist_id) = 0
    THEN Reply(404, << >>)
    ELSE IF updated_watchlists = << >>
         THEN Reply(200, << << Watchlist(uuid4(r), << >>) >> >>)
    ELSE Reply(200, << updated_watchlists >>)

server_clear_watchlist(watchlists, watchlist_id) ==
    LET t == target_watchlist(watchlists, watchlist_id) IN
    IF watchlists = << >> \/ t = 0 THEN Reply(404, << >>)
    ELSE Reply(200, << [ watchlists EXCEPT ![t].isin = << >> ] >>)

\* the handler the route of the request leads to, on the current_user that
\* auth_required passed
handler(watchlists, data, r) ==
    CASE data.operation \in { "create", "add_isin" } -> server_manage_watchlist(watchlists, data, r)
      [] data.operation = "remove" ->
           server_remove_from_watchlist(watchlists, data.watchlist_id, data.isin)
      [] data.operation = "delete" -> server_delete_watchlist(watchlists, data.watchlist_id, r)
      [] data.operation = "clear" -> server_clear_watchlist(watchlists, data.watchlist_id)

InitConcurrent ==
    /\ variant = "bse" /\ launcher = "server"
    /\ listedIsin = ValidIsin
    /\ lastFetch = "none"
    /\ temp_dir = {}
    /\ feed = << >>
    /\ now = MaxDate + RecencyHours
    /\ flagFile = FALSE
    /\ cursor = << >>
    /\ cacheMem = NewCache(DefaultMaxSize)
    /\ cacheFile = << >>
    /\ store = EmptyBag /\ sent = EmptyBag /\ attempts = EmptyBag /\ calls = EmptyBag
    /\ aiCalls = {}
    /\ pc = "requests"
    /\ queue = << >>
    /\ processed_count = 0
    /\ initial = FALSE
    /\ backfill = FALSE
    /\ ticks = 0
    /\ kind = "none" /\ lc = NewServingCache(CacheMaxSize)
    /\ order = [ ids |-> << >>, hashes |-> << >> ] /\ nAdds = 0 /\ hit = FALSE
    /\ RateIdle
    /\ LoopIdle
    /\ BootIdle
    /\ BroadcastIdle
    /\ WatchIdle
    /\ AuthIdle
    /\ RetryIdle
    /\ IngestIdle
    /\ KwIdle
    /\ cache_exc = "none"
    /\ WatchListID = StoredWatchlists
    /\ req \in [ Requests -> [ data : WatchlistOps, at : { "arrived" },
                               current_user : { << >> }, status : { 0 } ] ]

ConcurrentFrame ==
    UNCHANGED << pipeVars, cacheVars, rateVars, loopVars, bootVars, broadcastVars, watchVars,
                 authVars, retryVars, ingestVars, kwVars, cache_exc >>

\* auth_required: the select of the user's row, passed on as current_user
SelectCurrentUser(r) ==
    /\ pc = "requests" /\ req[r].at = "arrived"
    /\ req' = [ req EXCEPT ![r].at = "authenticated", ![r].current_user = << WatchListID >> ]
    /\ UNCHANGED WatchListID
    /\ ConcurrentFrame

\* the handler, whole: current_user.get('WatchListID'), the change, the
\* update of the row
RunHandler(r) ==
    /\ pc = "requests" /\ req[r].at = "authenticated"
    /\ LET reply == handler(req[r].current_user[1], req[r].data, r) IN
         /\ req' = [ req EXCEPT ![r].at = "answered", ![r].status = reply.status ]
         /\ WatchListID' = IF reply.update # << >> THEN reply.update[1] ELSE WatchListID
    /\ ConcurrentFrame

NextConcurrent ==
    \/ \E r \in Requests : SelectCurrentUser(r)
    \/ \E r \in Requests : RunHandler(r)

SpecConcurrent == InitConcurrent /\ [][NextConcurrent]_vars

\* the list after request r was handled alone on watchlists
After1(watchlists, r) ==
    LET reply == handler(watchlists, req[r].data, r)
    IN  IF reply.update # << >> THEN reply.update[1] ELSE watchlists

\* C39: when two watchlist-modifying requests of one user are handled
\* concurrently, the stored watchlists afterwards reflect both modifications:
\* the stored list is what handling the two requests one after the other, in
\* one of the two orders, leaves.
C39_NoLostWatchlistUpdate ==
    (\A r \in Requests : req[r].at = "answered")
        => WatchListID \in { After1(After1(StoredWatchlists, 1), 2),
                             After1(After1(StoredWatchlists, 2), 1) }
====
